---- MODULE Spec2Model ----
(***************************************************************************)
(* Compliance engine of the trading-component monitor: heartbeat store     *)
(* with TTL, per-minute file-freshness and level-compliance jobs, and the  *)
(* status aggregation, as laid out in src/2.plan.md; and the dashboard     *)
(* that polls it, src/src/components/StatusBoard.vue.                      *)
(*                                                                         *)
(* Time is in whole seconds since midnight of day 0.  Python None / JSON   *)
(* null is NoneInt for Optional[int] fields and NoneStr for Optional[str]  *)
(* fields.  A Redis key space is a function whose DOMAIN is the set of     *)
(* component ids that currently have a key.                                *)
(***************************************************************************)
EXTENDS Integers, Sequences, FiniteSets, TLC

VARIABLES
    now,            \* wall clock, seconds
    heartbeat,      \* Redis keys heartbeat:{component_id}
    file_status,    \* Redis keys file_status:{component_id}
    level_status,   \* Redis keys level_status:{component_id}
    mtime,          \* filesystem: path -> os.path.getmtime, NoneInt if absent
    f_in,           \* the file spec of one check_file_compliance call
    f_out,          \* its returned file status
    q_out,          \* component id -> the answer of GET /status/{component_id}
    s_out,          \* the answers of GET /status, one per request
    m_in,           \* the arguments of one call of a pure function
    m_out,          \* its returned values, one per evaluation
    file_plan,      \* what get_file_monitor_plan() reads from file_monitor_plan.yaml
    components,     \* StatusBoard: ref([]), the ComponentStatus list shown
    lastUpdateTime, \* ref: formatted time of the last successful fetch
    currentTime,    \* ref: formatted clock
    loading,        \* ref(false)
    isConnected,    \* ref(true)
    timer,          \* ref(null): id of the interval calling fetchData
    timeTimer,      \* ref(null): id of the interval calling updateCurrentTime
    chartTimer,     \* ref(null): id of the interval calling updateHistoryData
    selectedComponent, \* ref(''): component id chosen for the chart
    historyData,    \* component id -> [labels, data]
    stage,          \* life cycle of the component: created, mounted, unmounted
    pending,        \* the fetchData calls that are suspended at an await
    intervals,      \* ids of the intervals the browser holds
    due,            \* ids of the intervals whose period has elapsed
    timeout         \* whether the setTimeout callback of onMounted is pending

engine == <<heartbeat, file_status, level_status, mtime, f_in, f_out, q_out,
            s_out, m_in, m_out, file_plan>>

board == <<components, lastUpdateTime, currentTime, loading, isConnected, timer,
           timeTimer, chartTimer, selectedComponent, historyData, stage, pending,
           intervals, due, timeout>>

vars == <<now, engine, board>>


NoneInt == -1
NoneStr == "null"

----------------------------------------------------------------------------
(* Program constants *)

HEARTBEAT_TTL == 300
HEARTBEAT_INTERVAL_SEC == 30
TICK_INTERVAL == 60
DEFAULT_NON_TRADING_LEVEL == 1
\* the alert text of a missing file, as json.dumps writes the Chinese literal
ALERT_FILE_NOT_EXIST == "\\u6587\\u4ef6\\u4e0d\\u5b58\\u5728"

(* Bounds of the model *)

MaxTicks == 6
\* evaluations of one request or call over the same state
MaxEvals == 2

----------------------------------------------------------------------------
(* time_utils.py *)

HHMM(h, m) == h * 3600 + m * 60

parse_time(t) == HHMM(t[1], t[2])

TimeOfDay(t) == t % 86400

\* mutant: the end of the range is left out
is_time_in_range_half_open(check_time, start_time, end_time) ==
    IF start_time <= end_time
    THEN start_time <= check_time /\ check_time < end_time
    ELSE check_time >= start_time \/ check_time < end_time

is_time_in_range(check_time, start_time, end_time) ==
    IF start_time <= end_time
    THEN start_time <= check_time /\ check_time <= end_time
    ELSE check_time >= start_time \/ check_time <= end_time

RECURSIVE FirstMatch(_, _, _)
FirstMatch(rules, i, current_time) ==
    IF i > Len(rules) THEN 0
    ELSE IF is_time_in_range(TimeOfDay(current_time),
                             parse_time(rules[i].start_time),
                             parse_time(rules[i].end_time))
         THEN i
         ELSE FirstMatch(rules, i + 1, current_time)

\* mutant: the last matching rule wins
find_matching_schedule_rule_last(rules, current_time) ==
    LET matching == {i \in 1..Len(rules) :
                        is_time_in_range(TimeOfDay(current_time),
                                         parse_time(rules[i].start_time),
                                         parse_time(rules[i].end_time))}
    IN  IF matching = {} THEN 0
        ELSE CHOOSE i \in matching : \A j \in matching : j <= i

\* mutant: the window of a rule leaves out its end_time
find_matching_schedule_rule_half_open(rules, current_time) ==
    LET matching == {i \in 1..Len(rules) :
                        is_time_in_range_half_open(TimeOfDay(current_time),
                                                   parse_time(rules[i].start_time),
                                                   parse_time(rules[i].end_time))}
    IN  IF matching = {} THEN 0
        ELSE CHOOSE i \in matching : \A j \in matching : i <= j

\* index of the matching rule, 0 for None
find_matching_schedule_rule(rules, current_time) == FirstMatch(rules, 1, current_time)

(* croniter: a five-field expression with the day, month and weekday     *)
(* fields "*"; a field is "*/n" (kind "every"; "*" is every 1) or a      *)
(* number (kind "at").                                                   *)

Every(n) == [kind |-> "every", n |-> n]
At(n) == [kind |-> "at", n |-> n]
Cron(minute, hour) == [minute |-> minute, hour |-> hour]

FieldMatches(f, v) == IF f.kind = "every" THEN v % f.n = 0 ELSE v = f.n

CronMatches(cron, t) ==
    /\ t % 60 = 0
    /\ FieldMatches(cron.minute, (t \div 60) % 60)
    /\ FieldMatches(cron.hour, (t \div 3600) % 24)

\* a field croniter accepts: a step of at least 1, or a number in range
FieldValid(f, max) == IF f.kind = "every" THEN f.n >= 1 ELSE f.n \in 0..max

\* croniter(expr, ...) raises CroniterBadCronError for any other expression
croniter_is_valid(cron) == FieldValid(cron.minute, 59) /\ FieldValid(cron.hour, 23)

\* an exception leaving a function
Raised == [raised |-> "CroniterBadCronError"]

RECURSIVE PrevFrom(_, _)
PrevFrom(cron, t) == IF CronMatches(cron, t) THEN t ELSE PrevFrom(cron, t - 60)

RECURSIVE NextFrom(_, _)
NextFrom(cron, t) == IF CronMatches(cron, t) THEN t ELSE NextFrom(cron, t + 60)

\* croniter(expr, start).get_prev(): the latest trigger strictly before start
\* (from a whole minute it steps back 60 s, otherwise 1 s, then searches back)
croniter_get_prev(cron, start) == PrevFrom(cron, ((start - 1) \div 60) * 60)

\* next_expected_update: the earliest trigger at or after the reference time
next_due_after(cron, t) == NextFrom(cron, ((t + 59) \div 60) * 60)

----------------------------------------------------------------------------
(* Configuration: file_monitor_plan.yaml and level_schedule.yaml *)

EVERY_MINUTE == Cron(Every(1), Every(1))
EVERY_2_MINUTES == Cron(Every(2), Every(1))
EVERY_5_MINUTES == Cron(Every(5), Every(1))
HOURLY == Cron(At(0), Every(1))

FileSpec(path, cron, grace) ==
    [path |-> path, expected_update_cron |-> cron, grace_period_sec |-> grace]

file_monitor_plan ==
    << [component_id |-> "c1",
        input_files |-> << FileSpec("in1", EVERY_2_MINUTES, 30) >>,
        output_files |-> << FileSpec("out1", EVERY_MINUTE, 30) >>] >>

LevelRule(start, end, level, name) ==
    [start_time |-> start, end_time |-> end, expected_level |-> level, name |-> name]

\* non_trading_day_level = NoneInt: the key is not in the YAML
level_schedule ==
    << [component_id |-> "c1",
        rules |-> << LevelRule(<<9, 15>>, <<10, 30>>, 4, "continuous_trading"),
                     LevelRule(<<10, 29>>, <<10, 31>>, 2, "closing") >>,
        non_trading_day_level |-> NoneInt],
       [component_id |-> "c2",
        rules |-> << >>,
        non_trading_day_level |-> 3] >>

Comps == {"c1", "c2"}
Paths == {"in1", "out1"}
DeclaredLevels == {NoneInt, 4}

\* the first instant of the model: 10:27:00
StartTime == HHMM(10, 27)

----------------------------------------------------------------------------
(* api/heartbeat.py *)

HeartbeatData(component_id, process_exists, timestamp, declared_level) ==
    [component_id |-> component_id,
     process_exists |-> process_exists,
     timestamp |-> timestamp,
     declared_level |-> declared_level,
     received_at |-> now]

\* mutant: the key outlives its time-to-live by one second
Live_inclusive(store, t) ==
    [c \in {k \in DOMAIN store : t <= store[k].received_at + HEARTBEAT_TTL} |-> store[c]]

\* Redis drops a key once its time-to-live has run out
Live(store, t) == [c \in {k \in DOMAIN store : t < store[k].received_at + HEARTBEAT_TTL}
                     |-> store[c]]

\* mutant: a field the new value leaves unset keeps its stored value
set_json_merge(store, key, value) ==
    IF /\ key \in DOMAIN store
       /\ "declared_level" \in DOMAIN value
       /\ "declared_level" \in DOMAIN store[key]
       /\ value.declared_level = NoneInt
    THEN (key :> [value EXCEPT !.declared_level = store[key].declared_level]) @@ store
    ELSE (key :> value) @@ store

set_json(store, key, value) == (key :> value) @@ store

receive_heartbeat(component_id, process_exists, timestamp, declared_level) ==
    /\ heartbeat' = set_json(heartbeat, component_id,
                             HeartbeatData(component_id, process_exists,
                                           timestamp, declared_level))
    /\ UNCHANGED <<now, file_status, level_status, mtime, f_in, f_out,
                 q_out, s_out, m_in, m_out, file_plan, board>>

----------------------------------------------------------------------------
(* services/file_checker.py *)

\* mutant: a modification time ahead of the clock is rejected
ComplianceTest_no_future(last_modified, last_expected, grace_period_sec) ==
    /\ last_modified >= last_expected - grace_period_sec
    /\ last_modified <= now

\* mutant: the modification time is held against the clock, not the due time
ComplianceTest_against_now(last_modified, last_expected, grace_period_sec) ==
    last_modified >= now - grace_period_sec

ComplianceTest(last_modified, last_expected, grace_period_sec) ==
    last_modified >= last_expected - grace_period_sec

\* mutant: the existence test is skipped
check_file_compliance_no_exists(file_path, expected_cron, grace_period_sec) ==
    [path |-> file_path,
     expected_update_cron |-> expected_cron,
     last_modified |-> mtime[file_path],
     is_compliant |-> ComplianceTest(mtime[file_path],
                                     croniter_get_prev(expected_cron, now),
                                     grace_period_sec),
     next_expected_update |-> next_due_after(expected_cron, now),
     alert_message |-> NoneStr]

\* the plan names an alert text for a missing file only; a file that exists
\* carries alert_message null, as in the plan's file_status example
\* a missing file returns at step 2, before croniter is built; for an existing
\* file step 5 builds croniter(expected_cron, current_time) and nothing
\* catches what it raises
check_file_compliance(file_path, expected_cron, grace_period_sec) ==
    IF mtime[file_path] = NoneInt
    THEN [path |-> file_path,
          expected_update_cron |-> expected_cron,
          last_modified |-> NoneInt,
          is_compliant |-> FALSE,
          next_expected_update |-> IF croniter_is_valid(expected_cron)
                                   THEN next_due_after(expected_cron, now)
                                   ELSE NoneInt,
          alert_message |-> ALERT_FILE_NOT_EXIST]
    ELSE IF ~croniter_is_valid(expected_cron) THEN Raised
    ELSE LET last_modified == mtime[file_path]
             last_expected == croniter_get_prev(expected_cron, now)
         IN  [path |-> file_path,
              expected_update_cron |-> expected_cron,
              last_modified |-> last_modified,
              is_compliant |-> ComplianceTest(last_modified, last_expected,
                                              grace_period_sec),
              next_expected_update |-> next_due_after(expected_cron, now),
              alert_message |-> NoneStr]

Typed(st, type) == [path |-> st.path,
                    type |-> type,
                    expected_update_cron |-> st.expected_update_cron,
                    last_modified |-> st.last_modified,
                    is_compliant |-> st.is_compliant,
                    next_expected_update |-> st.next_expected_update,
                    alert_message |-> st.alert_message]

\* mutant: the loop over the files ends at the first missing file
FilesStatus_until_missing(files, type) ==
    LET missing == {i \in 1..Len(files) : mtime[files[i].path] = NoneInt}
        n == IF missing = {} THEN Len(files)
             ELSE (CHOOSE i \in missing : \A j \in missing : i <= j) - 1
    IN  [i \in 1..n |->
            LET st == check_file_compliance(files[i].path,
                                            files[i].expected_update_cron,
                                            files[i].grace_period_sec)
            IN  IF st = Raised THEN Raised ELSE Typed(st, type)]

FilesStatus(files, type) ==
    [i \in 1..Len(files) |->
        LET st == check_file_compliance(files[i].path, files[i].expected_update_cron,
                                        files[i].grace_period_sec)
        IN  IF st = Raised THEN Raised ELSE Typed(st, type)]

\* mutant: only the input files count
AllCompliant_inputs_only(input_files_status, output_files_status) ==
    \A i \in 1..Len(input_files_status) : input_files_status[i].is_compliant

AllCompliant(input_files_status, output_files_status) ==
    /\ \A i \in 1..Len(input_files_status) : input_files_status[i].is_compliant
    /\ \A i \in 1..Len(output_files_status) : output_files_status[i].is_compliant

FileMonitorStatus(component_id, component_config) ==
    LET input_files_status == FilesStatus(component_config.input_files, "input")
        output_files_status == FilesStatus(component_config.output_files, "output")
    IN  IF \/ \E i \in DOMAIN input_files_status : input_files_status[i] = Raised
           \/ \E i \in DOMAIN output_files_status : output_files_status[i] = Raised
        THEN Raised
        ELSE [component_id |-> component_id,
              input_files |-> input_files_status,
              output_files |-> output_files_status,
              overall_file_health |-> AllCompliant(input_files_status,
                                                   output_files_status),
              checked_at |-> now]

\* the store after the call, or Raised (and nothing stored)
update_file_status_for_component(store, component_id, component_config) ==
    LET value == FileMonitorStatus(component_id, component_config)
    IN  IF value = Raised THEN Raised ELSE set_json(store, component_id, value)

\* an exception ends the job: the components after it are not checked
RECURSIVE FileCheckFrom(_, _)
FileCheckFrom(store, i) ==
    IF i > Len(file_plan) THEN store
    ELSE LET updated == update_file_status_for_component(
                            store, file_plan[i].component_id, file_plan[i])
         IN  IF updated = Raised THEN store ELSE FileCheckFrom(updated, i + 1)

scheduled_file_check ==
    /\ file_status' = FileCheckFrom(file_status, 1)
    /\ UNCHANGED <<now, heartbeat, level_status, mtime, f_in, f_out,
                 q_out, s_out, m_in, m_out, file_plan, board>>

----------------------------------------------------------------------------
(* services/level_validator.py *)

\* mutant: the configured non_trading_day_level is not read
get_expected_level_default_only(component_config, current_time) ==
    LET i == find_matching_schedule_rule(component_config.rules, current_time)
    IN  IF i # 0
        THEN <<component_config.rules[i].expected_level, component_config.rules[i].name>>
        ELSE <<DEFAULT_NON_TRADING_LEVEL, NoneStr>>

get_expected_level(component_config, current_time) ==
    LET i == find_matching_schedule_rule(component_config.rules, current_time)
    IN  IF i # 0
        THEN <<component_config.rules[i].expected_level, component_config.rules[i].name>>
        ELSE <<IF component_config.non_trading_day_level = NoneInt
               THEN DEFAULT_NON_TRADING_LEVEL
               ELSE component_config.non_trading_day_level,
               NoneStr>>

\* mutant: without a heartbeat the level last recorded is reported
get_declared_level_from_heartbeat_last_known(component_id) ==
    IF component_id \in DOMAIN heartbeat
    THEN heartbeat[component_id].declared_level
    ELSE IF component_id \in DOMAIN level_status
         THEN level_status[component_id].declared_level
         ELSE NoneInt

get_declared_level_from_heartbeat(component_id) ==
    IF component_id \in DOMAIN heartbeat
    THEN heartbeat[component_id].declared_level
    ELSE NoneInt

\* mutant: an unreported level is taken to be the default level
ObservedLevel_default(declared_level) ==
    IF declared_level = NoneInt THEN DEFAULT_NON_TRADING_LEVEL ELSE declared_level

ObservedLevel(declared_level) == IF declared_level = NoneInt THEN 0 ELSE declared_level

\* mutant: a level above the expected one passes
Compliant_at_least(observed_level, expected_level) == observed_level >= expected_level

Compliant(observed_level, expected_level) == observed_level = expected_level

LevelRecord(component_id, component_config, declared_level, current_time) ==
    LET expected == get_expected_level(component_config, current_time)
        observed_level == ObservedLevel(declared_level)
    IN  [component_id |-> component_id,
         expected_level |-> expected[1],
         observed_level |-> observed_level,
         declared_level |-> declared_level,
         compliant |-> Compliant(observed_level, expected[1]),
         schedule_rule |-> expected[2],
         last_check |-> current_time]

LevelStatus(component_id, component_config) ==
    LevelRecord(component_id, component_config,
                get_declared_level_from_heartbeat(component_id), now)

update_level_status_for_component(store, component_id, component_config) ==
    set_json(store, component_id, LevelStatus(component_id, component_config))

RECURSIVE LevelCheckFrom(_, _)
LevelCheckFrom(store, i) ==
    IF i > Len(level_schedule) THEN store
    ELSE LevelCheckFrom(
            update_level_status_for_component(store, level_schedule[i].component_id,
                                              level_schedule[i]),
            i + 1)

\* mutant: the job writes the observed level back into the heartbeat records
scheduled_level_check_writes_back ==
    /\ level_status' = LevelCheckFrom(level_status, 1)
    /\ heartbeat' = [c \in DOMAIN heartbeat |->
                        [heartbeat[c] EXCEPT
                            !.declared_level = ObservedLevel(heartbeat[c].declared_level)]]
    /\ UNCHANGED <<now, file_status, mtime, f_in, f_out, q_out, s_out, m_in, m_out,
                   file_plan, board>>

scheduled_level_check ==
    /\ level_status' = LevelCheckFrom(level_status, 1)
    /\ UNCHANGED <<now, heartbeat, file_status, mtime, f_in, f_out,
                 q_out, s_out, m_in, m_out, file_plan, board>>

----------------------------------------------------------------------------
(* api/status.py *)

NoneRec == [none |-> TRUE]
NotFound == [status_code |-> 404]

\* mutant: the thresholds are exclusive
calculate_heartbeat_status_strict(heartbeat_data) ==
    IF heartbeat_data = NoneRec THEN "offline"
    ELSE IF ~heartbeat_data.process_exists THEN "critical"
    ELSE LET delta == now - heartbeat_data.timestamp
         IN  IF delta < HEARTBEAT_INTERVAL_SEC THEN "healthy"
             ELSE IF delta < 2 * HEARTBEAT_INTERVAL_SEC THEN "warning"
             ELSE "critical"

\* mutant: the age is looked at before process_exists
calculate_heartbeat_status_age_first(heartbeat_data) ==
    IF heartbeat_data = NoneRec THEN "offline"
    ELSE LET delta == now - heartbeat_data.timestamp
         IN  IF delta <= HEARTBEAT_INTERVAL_SEC THEN "healthy"
             ELSE IF ~heartbeat_data.process_exists THEN "critical"
             ELSE IF delta <= 2 * HEARTBEAT_INTERVAL_SEC THEN "warning"
             ELSE "critical"

\* mutant: the labels of the two older classes are exchanged
calculate_heartbeat_status_labels_exchanged(heartbeat_data) ==
    IF heartbeat_data = NoneRec THEN "offline"
    ELSE IF ~heartbeat_data.process_exists THEN "critical"
    ELSE LET delta == now - heartbeat_data.timestamp
         IN  IF delta <= HEARTBEAT_INTERVAL_SEC THEN "healthy"
             ELSE IF delta <= 2 * HEARTBEAT_INTERVAL_SEC THEN "critical"
             ELSE "warning"

\* heartbeat_data is the stored record, NoneRec when the key is absent
calculate_heartbeat_status(heartbeat_data) ==
    IF heartbeat_data = NoneRec THEN "offline"
    ELSE IF ~heartbeat_data.process_exists THEN "critical"
    ELSE LET delta == now - heartbeat_data.timestamp
         IN  IF delta <= HEARTBEAT_INTERVAL_SEC THEN "healthy"
             ELSE IF delta <= 2 * HEARTBEAT_INTERVAL_SEC THEN "warning"
             ELSE "critical"

get_json(store, key) == IF key \in DOMAIN store THEN store[key] ELSE NoneRec

HeartbeatStatus(heartbeat_data) ==
    IF heartbeat_data = NoneRec THEN NoneRec
    ELSE [component_id |-> heartbeat_data.component_id,
          process_exists |-> heartbeat_data.process_exists,
          last_heartbeat_at |-> heartbeat_data.timestamp,
          status |-> calculate_heartbeat_status(heartbeat_data),
          declared_level |-> heartbeat_data.declared_level]

\* mutant: a failing file or level record is looked at before the heartbeat
overall_status_records_first(hb, files, level) ==
    LET hb_class == IF hb = NoneRec THEN "offline" ELSE hb.status
    IN  IF \/ (files # NoneRec /\ ~files.overall_file_health)
           \/ (level # NoneRec /\ ~level.compliant) THEN "warning"
        ELSE IF hb_class \in {"offline", "critical"} THEN "critical"
        ELSE IF hb_class = "warning" THEN "warning"
        ELSE IF files # NoneRec /\ level # NoneRec THEN "healthy"
        ELSE IF files = NoneRec /\ level = NoneRec THEN "unknown"
        ELSE NoneStr

\* mutant: a warning heartbeat alone does not lower the overall status
overall_status_no_heartbeat_warning(hb, files, level) ==
    LET hb_class == IF hb = NoneRec THEN "offline" ELSE hb.status
    IN  IF hb_class \in {"offline", "critical"} THEN "critical"
        ELSE IF \/ (files # NoneRec /\ ~files.overall_file_health)
                \/ (level # NoneRec /\ ~level.compliant) THEN "warning"
        ELSE IF files # NoneRec /\ level # NoneRec THEN "healthy"
        ELSE IF files = NoneRec /\ level = NoneRec THEN "unknown"
        ELSE NoneStr

\* mutant: only a failing file record together with a failing level record
\* lowers the overall status
overall_status_both_failing(hb, files, level) ==
    LET hb_class == IF hb = NoneRec THEN "offline" ELSE hb.status
    IN  IF hb_class \in {"offline", "critical"} THEN "critical"
        ELSE IF /\ (files # NoneRec /\ ~files.overall_file_health)
                /\ (level # NoneRec /\ ~level.compliant) THEN "warning"
        ELSE IF hb_class = "warning" THEN "warning"
        ELSE IF files # NoneRec /\ level # NoneRec THEN "healthy"
        ELSE IF files = NoneRec /\ level = NoneRec THEN "unknown"
        ELSE NoneStr

\* mutant: without file and level records the component passes for healthy
\* (the worst of the states that are there)
overall_status_absent_is_healthy(hb, files, level) ==
    LET hb_class == IF hb = NoneRec THEN "offline" ELSE hb.status
    IN  IF hb_class \in {"offline", "critical"} THEN "critical"
        ELSE IF \/ (files # NoneRec /\ ~files.overall_file_health)
                \/ (level # NoneRec /\ ~level.compliant) THEN "warning"
        ELSE IF hb_class = "warning" THEN "warning"
        ELSE "healthy"

\* mutant: the class of the heartbeat is passed on when it is the worst
overall_status_heartbeat_class(hb, files, level) ==
    LET hb_class == IF hb = NoneRec THEN "offline" ELSE hb.status
    IN  IF hb_class \in {"offline", "critical"} THEN hb_class
        ELSE IF \/ (files # NoneRec /\ ~files.overall_file_health)
                \/ (level # NoneRec /\ ~level.compliant) THEN "warning"
        ELSE IF hb_class = "warning" THEN "warning"
        ELSE IF files # NoneRec /\ level # NoneRec THEN "healthy"
        ELSE IF files = NoneRec /\ level = NoneRec THEN "unknown"
        ELSE NoneStr

\* worst-of precedence; NoneStr where no class is laid down
overall_status(hb, files, level) ==
    LET hb_class == IF hb = NoneRec THEN "offline" ELSE hb.status
    IN  IF hb_class \in {"offline", "critical"} THEN "critical"
        ELSE IF \/ (files # NoneRec /\ ~files.overall_file_health)
                \/ (level # NoneRec /\ ~level.compliant) THEN "warning"
        ELSE IF hb_class = "warning" THEN "warning"
        ELSE IF files # NoneRec /\ level # NoneRec THEN "healthy"
        ELSE IF files = NoneRec /\ level = NoneRec THEN "unknown"
        ELSE NoneStr

ComponentStatus(component_id) ==
    LET hb == HeartbeatStatus(get_json(heartbeat, component_id))
        files == get_json(file_status, component_id)
        level == get_json(level_status, component_id)
    IN  [component_id |-> component_id,
         heartbeat |-> hb,
         file_status |-> files,
         level_status |-> level,
         overall_status |-> overall_status(hb, files, level)]

\* mutant: a component without a heartbeat is not found
get_component_status_heartbeat_only(component_id) ==
    IF component_id \notin DOMAIN heartbeat
    THEN NotFound
    ELSE ComponentStatus(component_id)

get_component_status(component_id) ==
    IF /\ component_id \notin DOMAIN heartbeat
       /\ component_id \notin DOMAIN file_status
       /\ component_id \notin DOMAIN level_status
    THEN NotFound
    ELSE ComponentStatus(component_id)

\* the keys heartbeat:* (Redis returns them in no particular order)
get_keys_by_pattern(store) ==
    {keys \in [1..Cardinality(DOMAIN store) -> DOMAIN store] :
        \A i, j \in DOMAIN keys : i # j => keys[i] # keys[j]}

CountOf(statuses, class) ==
    Cardinality({i \in DOMAIN statuses : statuses[i].overall_status = class})

StatusResponse(statuses) ==
    [components |-> statuses,
     total_count |-> Len(statuses),
     healthy_count |-> CountOf(statuses, "healthy"),
     warning_count |-> CountOf(statuses, "warning"),
     critical_count |-> CountOf(statuses, "critical"),
     queried_at |-> now]

\* keys: the heartbeat keys as Redis listed them
get_all_status(keys) ==
    StatusResponse([i \in 1..Len(keys) |-> ComponentStatus(keys[i])])

----------------------------------------------------------------------------
(* Environment: the clock, and the components writing their files *)

Empty == [c \in {} |-> 0]

\* StatusBoard.vue after setup: the refs at their initial values, no timer
BoardCreated ==
    /\ components = << >>
    /\ lastUpdateTime = NoneInt
    /\ currentTime = NoneInt
    /\ loading = FALSE
    /\ isConnected = TRUE
    /\ timer = NoneStr
    /\ timeTimer = NoneStr
    /\ chartTimer = NoneStr
    /\ selectedComponent = ""
    /\ historyData = Empty
    /\ stage = "created"
    /\ pending = << >>
    /\ intervals = {}
    /\ due = {}
    /\ timeout = FALSE

\* mutant: the records of the jobs are written with the heartbeat's time-to-live
Advance_records_expire ==
    /\ now + TICK_INTERVAL <= StartTime + MaxTicks * TICK_INTERVAL
    /\ now' = now + TICK_INTERVAL
    /\ heartbeat' = Live(heartbeat, now')
    /\ file_status' =
          [c \in {k \in DOMAIN file_status :
                    now' < file_status[k].checked_at + HEARTBEAT_TTL} |-> file_status[c]]
    /\ level_status' =
          [c \in {k \in DOMAIN level_status :
                    now' < level_status[k].last_check + HEARTBEAT_TTL} |-> level_status[c]]
    /\ UNCHANGED <<mtime, f_in, f_out, q_out, s_out, m_in, m_out, file_plan, board>>

Advance ==
    /\ now + TICK_INTERVAL <= StartTime + MaxTicks * TICK_INTERVAL
    /\ now' = now + TICK_INTERVAL
    /\ heartbeat' = Live(heartbeat, now')
    /\ UNCHANGED <<file_status, level_status, mtime, f_in, f_out, q_out,
                 s_out, m_in, m_out, file_plan, board>>

WriteFile(path) ==
    /\ mtime[path] # now
    /\ mtime' = [mtime EXCEPT ![path] = now]
    /\ UNCHANGED <<now, heartbeat, file_status, level_status, f_in,
                 f_out, q_out, s_out, m_in, m_out, file_plan, board>>

RemoveFile(path) ==
    /\ mtime[path] # NoneInt
    /\ mtime' = [mtime EXCEPT ![path] = NoneInt]
    /\ UNCHANGED <<now, heartbeat, file_status, level_status, f_in,
                 f_out, q_out, s_out, m_in, m_out, file_plan, board>>

Signal ==
    \E c \in Comps, pe \in BOOLEAN, lvl \in DeclaredLevels :
        receive_heartbeat(c, pe, now, lvl)

Init ==
    /\ now = StartTime
    /\ heartbeat = Empty
    /\ file_status = Empty
    /\ level_status = Empty
    /\ mtime \in [Paths -> {NoneInt, StartTime - TICK_INTERVAL}]
    /\ f_in = Empty
    /\ f_out = Empty
    /\ q_out = Empty
    /\ s_out = << >>
    /\ m_in = Empty
    /\ m_out = << >>
    /\ file_plan = file_monitor_plan
    /\ BoardCreated

(* Heartbeat ingestion and the level-compliance job *)

NextLevel ==
    \/ Advance
    \/ Signal
    \/ scheduled_level_check

SpecLevel == Init /\ [][NextLevel]_vars

(* The monitored files and the file-freshness job *)

NextFiles ==
    \/ Advance
    \/ \E p \in Paths : WriteFile(p)
    \/ \E p \in Paths : RemoveFile(p)
    \/ scheduled_file_check

SpecFiles == Init /\ [][NextFiles]_vars

(* The file-freshness job over plans that hold malformed cron expressions *)

\* "60 * * * *"
BAD_CRON == Cron(At(60), Every(1))

PlanCrons == {EVERY_MINUTE, BAD_CRON}

Plans ==
    { << [component_id |-> "c1",
          input_files |-> << FileSpec("in1", a, 30) >>,
          output_files |-> << FileSpec("out1", b, 30) >>],
         [component_id |-> "c2",
          input_files |-> << FileSpec("in1", c, 30) >>,
          output_files |-> << >>] >> : a \in PlanCrons, b \in PlanCrons, c \in PlanCrons }

InitPlan ==
    /\ now = StartTime
    /\ heartbeat = Empty
    /\ file_status = Empty
    /\ level_status = Empty
    /\ mtime \in [Paths -> {NoneInt, StartTime - TICK_INTERVAL}]
    /\ f_in = Empty
    /\ f_out = Empty
    /\ q_out = Empty
    /\ s_out = << >>
    /\ m_in = Empty
    /\ m_out = << >>
    /\ file_plan \in Plans
    /\ BoardCreated

SpecPlan == InitPlan /\ [][NextFiles]_vars

(* Heartbeat ingestion and both jobs over files that do not change: over  *)
(* the last three instants under the plan of every minute and under a     *)
(* plan of hourly updates, and over the whole time under the first plan   *)

hourly_plan ==
    << [component_id |-> "c1",
        input_files |-> << FileSpec("in1", HOURLY, 30) >>,
        output_files |-> << FileSpec("out1", HOURLY, 30) >>] >>

TicksStart == StartTime + (MaxTicks - 2) * TICK_INTERVAL

InitTicks ==
    /\ now = TicksStart
    /\ heartbeat = Empty
    /\ file_status = Empty
    /\ level_status = Empty
    /\ mtime \in [Paths -> {NoneInt, TicksStart}]
    /\ f_in = Empty
    /\ f_out = Empty
    /\ q_out = Empty
    /\ s_out = << >>
    /\ m_in = Empty
    /\ m_out = << >>
    /\ file_plan \in {file_monitor_plan, hourly_plan}
    /\ BoardCreated

NextTicks ==
    \/ Advance
    \/ Signal
    \/ scheduled_file_check
    \/ scheduled_level_check

SpecTicks == InitTicks /\ [][NextTicks]_vars

InitTTL ==
    /\ now = StartTime
    /\ heartbeat = Empty
    /\ file_status = Empty
    /\ level_status = Empty
    /\ mtime = [p \in Paths |-> StartTime]
    /\ f_in = Empty
    /\ f_out = Empty
    /\ q_out = Empty
    /\ s_out = << >>
    /\ m_in = Empty
    /\ m_out = << >>
    /\ file_plan = file_monitor_plan
    /\ BoardCreated

SpecTTL == InitTTL /\ [][NextTicks]_vars

(* Heartbeat ingestion and both jobs together, over the last two instants *)

StoreStart == StartTime + (MaxTicks - 1) * TICK_INTERVAL

InitStore ==
    /\ now = StoreStart
    /\ heartbeat = Empty
    /\ file_status = Empty
    /\ level_status = Empty
    /\ mtime \in [Paths -> {NoneInt, StoreStart - TICK_INTERVAL}]
    /\ f_in = Empty
    /\ f_out = Empty
    /\ q_out = Empty
    /\ s_out = << >>
    /\ m_in = Empty
    /\ m_out = << >>
    /\ file_plan = file_monitor_plan
    /\ BoardCreated

NextStore ==
    \/ Advance
    \/ Signal
    \/ \E p \in Paths : WriteFile(p)
    \/ \E p \in Paths : RemoveFile(p)
    \/ scheduled_file_check
    \/ scheduled_level_check

SpecStore == InitStore /\ [][NextStore]_vars

----------------------------------------------------------------------------
(* One call of check_file_compliance, over a range of clocks, modification *)
(* times, schedules and grace periods                                      *)

CheckBase == HHMM(10, 24)
CheckGrid == 5
MaxCheckSteps == 90
FarFuture == HHMM(23, 0)

CheckNows == {HHMM(10, 30) + d : d \in {-1, 0, 1, 30, 60}}
CheckMtimes == {NoneInt, FarFuture} \cup {CheckBase + k * CheckGrid : k \in 0..MaxCheckSteps}
CheckCrons == {EVERY_MINUTE, EVERY_5_MINUTES, HOURLY}
CheckGraces == {0, 30, 60}

InitCheck ==
    /\ now \in CheckNows
    /\ heartbeat = Empty
    /\ file_status = Empty
    /\ level_status = Empty
    /\ \E m \in CheckMtimes : mtime = [p \in Paths |-> m]
    /\ \E cron \in CheckCrons, grace \in CheckGraces : f_in = FileSpec("in1", cron, grace)
    /\ f_out = Empty
    /\ q_out = Empty
    /\ s_out = << >>
    /\ m_in = Empty
    /\ m_out = << >>
    /\ file_plan = file_monitor_plan
    /\ BoardCreated

CheckFile ==
    /\ f_out = Empty
    /\ f_out' = check_file_compliance(f_in.path, f_in.expected_update_cron,
                                      f_in.grace_period_sec)
    /\ UNCHANGED <<now, heartbeat, file_status, level_status, mtime,
                 f_in, q_out, s_out, m_in, m_out, file_plan, board>>

NextCheck == CheckFile

SpecCheck == InitCheck /\ [][NextCheck]_vars

----------------------------------------------------------------------------
(* One status query against a store snapshot *)

MaxAge == 65
QueryTime == HHMM(10, 30)
QueryAges == 0..MaxAge \cup {HEARTBEAT_TTL - 1}
QueryLags == {0, 5}

\* c1 with a heartbeat of any age, or none; c2 with a fresh one, or none
QueryHeartbeats ==
    LET h1 == {Empty} \cup
              { "c1" :> [component_id |-> "c1", process_exists |-> pe,
                         timestamp |-> QueryTime - age - lag, declared_level |-> lvl,
                         received_at |-> QueryTime - age] :
                  pe \in BOOLEAN, lvl \in DeclaredLevels,
                  age \in {a \in QueryAges : a < HEARTBEAT_TTL}, lag \in QueryLags }
        h2 == {Empty,
               "c2" :> [component_id |-> "c2", process_exists |-> TRUE,
                        timestamp |-> QueryTime, declared_level |-> NoneInt,
                        received_at |-> QueryTime]}
    IN  {a @@ b : a \in h1, b \in h2}

InitQuery ==
    /\ now = QueryTime
    /\ heartbeat \in QueryHeartbeats
    /\ mtime \in [Paths -> {NoneInt, QueryTime}]
    /\ file_status \in {Empty, "c1" :> FileMonitorStatus("c1", file_monitor_plan[1])}
    /\ level_status \in {Empty} \cup
          { "c1" :> LevelRecord("c1", level_schedule[1], d, QueryTime) :
              d \in DeclaredLevels }
    /\ f_in = Empty
    /\ f_out = Empty
    /\ q_out = Empty
    /\ s_out = << >>
    /\ m_in = Empty
    /\ m_out = << >>
    /\ file_plan = file_monitor_plan
    /\ BoardCreated

Query(component_id) ==
    /\ component_id \notin DOMAIN q_out
    /\ q_out' = set_json(q_out, component_id, get_component_status(component_id))
    /\ UNCHANGED <<now, heartbeat, file_status, level_status, mtime,
                 f_in, f_out, s_out, m_in, m_out, file_plan, board>>

QueryAll ==
    /\ Len(s_out) < MaxEvals
    /\ \E keys \in get_keys_by_pattern(heartbeat) :
          s_out' = Append(s_out, get_all_status(keys))
    /\ UNCHANGED <<now, heartbeat, file_status, level_status, mtime,
                 f_in, f_out, q_out, m_in, m_out, file_plan, board>>

NextQuery ==
    \/ \E c \in Comps : Query(c)
    \/ QueryAll

SpecQuery == InitQuery /\ [][NextQuery]_vars

----------------------------------------------------------------------------
(* Signals, both jobs and the status routes within one instant *)

InitFrame ==
    /\ now = StartTime
    /\ heartbeat = Empty
    /\ file_status = Empty
    /\ level_status = Empty
    /\ mtime = [p \in Paths |-> StartTime]
    /\ f_in = Empty
    /\ f_out = Empty
    /\ q_out = Empty
    /\ s_out = << >>
    /\ m_in = Empty
    /\ m_out = << >>
    /\ file_plan = file_monitor_plan
    /\ BoardCreated

\* one request per behaviour, at any point of it
NoRequestYet == q_out = Empty /\ s_out = << >>

NextFrame ==
    \/ Signal
    \/ scheduled_file_check
    \/ scheduled_level_check
    \/ \E c \in Comps : NoRequestYet /\ Query(c)
    \/ NoRequestYet /\ QueryAll

SpecFrame == InitFrame /\ [][NextFrame]_vars

----------------------------------------------------------------------------
(* src/src/components/StatusBoard.vue: the dashboard.  A JSON null or a   *)
(* missing property is NoneRec for an object, "" is the empty string.     *)
(* Each action is one task of the event loop: the code that runs between  *)
(* two awaits, with the promise continuations it triggers.                *)

POLL_INTERVAL == 10
HISTORY_LIMIT == 20

MaxPolls == 2
MaxPending == 2

\* year/month/day hour:minute of the date
formatDateTime(date) == (date \div 60) * 60

\* hour:minute:second of the date
toLocaleTimeString(date) == date % 86400

\* mutant: a component without a heartbeat passes, as one without records does
getOverallHealthClass_absent_heartbeat_ok(comp) ==
    LET hbOk == comp.heartbeat = NoneRec \/ comp.heartbeat.status = "healthy"
        fileOk == comp.file_status = NoneRec
                    \/ comp.file_status.overall_file_health # FALSE
        levelOk == comp.level_status = NoneRec \/ comp.level_status.compliant # FALSE
    IN  IF hbOk /\ fileOk /\ levelOk THEN "health-good" ELSE "health-bad"

getOverallHealthClass(comp) ==
    LET hbOk == comp.heartbeat # NoneRec /\ comp.heartbeat.status = "healthy"
        fileOk == comp.file_status = NoneRec
                    \/ comp.file_status.overall_file_health # FALSE
        levelOk == comp.level_status = NoneRec \/ comp.level_status.compliant # FALSE
    IN  IF hbOk /\ fileOk /\ levelOk THEN "health-good" ELSE "health-bad"

healthyCount ==
    Cardinality({i \in DOMAIN components :
                    getOverallHealthClass(components[i]) = "health-good"})

warningCount ==
    Cardinality({i \in DOMAIN components :
                    /\ components[i].heartbeat # NoneRec
                    /\ components[i].heartbeat.status = "warning"
                    /\ getOverallHealthClass(components[i]) # "health-good"})

\* mutant: only the components whose heartbeat is classified critical count
criticalCount_heartbeat_critical ==
    Cardinality({i \in DOMAIN components :
                    /\ components[i].heartbeat # NoneRec
                    /\ components[i].heartbeat.status = "critical"})

criticalCount ==
    Cardinality({i \in DOMAIN components :
                    getOverallHealthClass(components[i]) # "health-good"})

IsGood(comp) == getOverallHealthClass(comp) = "health-good"
IsBad(comp) == getOverallHealthClass(comp) # "health-good"

\* filteredComponents with an empty search: Array.prototype.sort, stable and
\* in place, on components.value itself, the unhealthy first
filteredComponents == SelectSeq(components, IsBad) \o SelectSeq(components, IsGood)

Score(comp) ==
    (IF comp.heartbeat # NoneRec /\ comp.heartbeat.status = "healthy" THEN 40 ELSE 0)
    + (IF comp.file_status # NoneRec /\ comp.file_status.overall_file_health = TRUE
       THEN 30 ELSE 0)
    + (IF comp.level_status # NoneRec /\ comp.level_status.compliant = TRUE
       THEN 30 ELSE 0)

\* mutant: the newest sample is dropped once the limit is reached
Sampled_drops_newest(history, label, score) ==
    LET labels == Append(history.labels, label)
        data == Append(history.data, score)
    IN  IF Len(labels) > HISTORY_LIMIT
        THEN [labels |-> history.labels, data |-> history.data]
        ELSE [labels |-> labels, data |-> data]

\* push, then shift once the length is over the limit
Sampled(history, label, score) ==
    LET labels == Append(history.labels, label)
        data == Append(history.data, score)
    IN  IF Len(labels) > HISTORY_LIMIT
        THEN [labels |-> Tail(labels), data |-> Tail(data)]
        ELSE [labels |-> labels, data |-> data]

RECURSIVE HistoryFrom(_, _)
HistoryFrom(history, i) ==
    IF i > Len(components) THEN history
    ELSE LET id == components[i].component_id
             old == IF id \in DOMAIN history THEN history[id]
                    ELSE [labels |-> << >>, data |-> << >>]
         IN  HistoryFrom(set_json(history, id,
                                  Sampled(old, toLocaleTimeString(now),
                                          Score(components[i]))),
                         i + 1)

updateHistoryData == historyData' = HistoryFrom(historyData, 1)

\* mutant: no test of loading on entry
fetchData_unguarded(caller) ==
    /\ loading' = TRUE
    /\ pending' = Append(pending, [caller |-> caller, awaiting |-> "fetch"])

\* the synchronous part of fetchData, up to await fetch(...)
fetchData(caller) ==
    IF loading
    THEN UNCHANGED <<loading, pending>>
    ELSE /\ loading' = TRUE
         /\ pending' = Append(pending, [caller |-> caller, awaiting |-> "fetch"])

Without(seq, i) == [k \in 1..(Len(seq) - 1) |-> IF k < i THEN seq[k] ELSE seq[k + 1]]

\* onMounted after await fetchData(): it runs when the call of onMounted
\* settles, whatever the stage of the component is by then
onMounted_continues(caller) ==
    IF caller = "mount"
    THEN /\ timer' = "fetch"
         /\ timeTimer' = "clock"
         /\ chartTimer' = "history"
         /\ intervals' = intervals \cup {"fetch", "clock", "history"}
         /\ currentTime' = formatDateTime(now)
         /\ timeout' = TRUE
    ELSE UNCHANGED <<timer, timeTimer, chartTimer, intervals, currentTime, timeout>>

\* mutant: the catch block empties the list
Caught_clears_components(i) ==
    /\ isConnected' = FALSE
    /\ loading' = FALSE
    /\ pending' = Without(pending, i)
    /\ onMounted_continues(pending[i].caller)
    /\ components' = << >>
    /\ UNCHANGED <<lastUpdateTime, selectedComponent>>

\* catch and finally of fetchData
Caught(i) ==
    /\ isConnected' = FALSE
    /\ loading' = FALSE
    /\ pending' = Without(pending, i)
    /\ onMounted_continues(pending[i].caller)
    /\ UNCHANGED <<components, lastUpdateTime, selectedComponent>>

\* a body of the response without the components property
NO_COMPONENTS == [queried_at |-> 0]
\* a body that is not JSON
NOT_JSON == [text |-> "<html>"]

Bodies ==
    {get_all_status(keys) : keys \in get_keys_by_pattern(heartbeat)}
        \cup {NO_COMPONENTS, NOT_JSON}

Mount ==
    /\ stage = "created"
    /\ stage' = "mounted"
    /\ fetchData("mount")
    /\ UNCHANGED <<now, engine, components, lastUpdateTime, currentTime, isConnected,
                   timer, timeTimer, chartTimer, selectedComponent, historyData,
                   intervals, due, timeout>>

\* fetch rejects (network error), or resolves with res.ok false
FetchFails(i) ==
    /\ pending[i].awaiting = "fetch"
    /\ Caught(i)
    /\ UNCHANGED <<now, engine, historyData, stage, due>>

FetchResolves(i) ==
    /\ pending[i].awaiting = "fetch"
    /\ \E body \in Bodies :
          pending' = [pending EXCEPT ![i] = [caller |-> pending[i].caller,
                                             awaiting |-> "json",
                                             body |-> body]]
    /\ UNCHANGED <<now, engine, components, lastUpdateTime, currentTime, loading,
                   isConnected, timer, timeTimer, chartTimer, selectedComponent,
                   historyData, stage, intervals, due, timeout>>

\* res.json() settles
JsonSettles(i) ==
    /\ pending[i].awaiting = "json"
    /\ IF pending[i].body = NOT_JSON
       THEN Caught(i)
       ELSE LET data == pending[i].body
                list == IF "components" \in DOMAIN data THEN data.components ELSE << >>
            IN  /\ components' = list
                /\ lastUpdateTime' = formatDateTime(now)
                /\ selectedComponent' =
                      IF Len(list) > 0 /\ selectedComponent = ""
                      THEN list[1].component_id
                      ELSE selectedComponent
                /\ isConnected' = TRUE
                /\ loading' = FALSE
                /\ pending' = Without(pending, i)
                /\ onMounted_continues(pending[i].caller)
    /\ UNCHANGED <<now, engine, historyData, stage, due>>

\* the callback of setTimeout(..., 100) in onMounted
TimeoutFires ==
    /\ timeout
    /\ timeout' = FALSE
    /\ selectedComponent' =
          IF Len(components) > 0 /\ selectedComponent = ""
          THEN components[1].component_id
          ELSE selectedComponent
    /\ IF selectedComponent' # "" THEN updateHistoryData ELSE UNCHANGED historyData
    /\ UNCHANGED <<now, engine, components, lastUpdateTime, currentTime, loading,
                   isConnected, timer, timeTimer, chartTimer, stage, pending,
                   intervals, due>>

\* setInterval(fetchData, 10000)
TimerFetch ==
    /\ "fetch" \in due
    /\ Len(pending) < MaxPending
    /\ due' = due \ {"fetch"}
    /\ fetchData("timer")
    /\ UNCHANGED <<now, engine, components, lastUpdateTime, currentTime, isConnected,
                   timer, timeTimer, chartTimer, selectedComponent, historyData,
                   stage, intervals, timeout>>

\* setInterval(updateCurrentTime, 1000)
ClockTick ==
    /\ "clock" \in due
    /\ due' = due \ {"clock"}
    /\ currentTime' = formatDateTime(now)
    /\ UNCHANGED <<now, engine, components, lastUpdateTime, loading, isConnected,
                   timer, timeTimer, chartTimer, selectedComponent, historyData,
                   stage, pending, intervals, timeout>>

\* setInterval(updateHistoryData, 10000)
HistoryTick ==
    /\ "history" \in due
    /\ due' = due \ {"history"}
    /\ updateHistoryData
    /\ UNCHANGED <<now, engine, components, lastUpdateTime, currentTime, loading,
                   isConnected, timer, timeTimer, chartTimer, selectedComponent,
                   stage, pending, intervals, timeout>>

\* the refresh button: @click="fetchData"
Refresh ==
    /\ stage = "mounted"
    /\ Len(pending) < MaxPending
    /\ fetchData("button")
    /\ UNCHANGED <<now, engine, components, lastUpdateTime, currentTime, isConnected,
                   timer, timeTimer, chartTimer, selectedComponent, historyData,
                   stage, intervals, due, timeout>>

\* the select bound to selectedComponent by v-model
Select ==
    /\ stage = "mounted"
    /\ \E i \in DOMAIN components :
          selectedComponent' = components[i].component_id
    /\ UNCHANGED <<now, engine, components, lastUpdateTime, currentTime, loading,
                   isConnected, timer, timeTimer, chartTimer, historyData, stage,
                   pending, intervals, due, timeout>>

\* a render evaluates filteredComponents
Render ==
    /\ stage = "mounted"
    /\ components' = filteredComponents
    /\ UNCHANGED <<now, engine, lastUpdateTime, currentTime, loading, isConnected,
                   timer, timeTimer, chartTimer, selectedComponent, historyData,
                   stage, pending, intervals, due, timeout>>

Cleared == {id \in {timer, timeTimer, chartTimer} : id # NoneStr}

onUnmounted ==
    /\ stage = "mounted"
    /\ stage' = "unmounted"
    /\ intervals' = intervals \ Cleared
    /\ due' = due \ Cleared
    /\ UNCHANGED <<now, engine, components, lastUpdateTime, currentTime, loading,
                   isConnected, timer, timeTimer, chartTimer, selectedComponent,
                   historyData, pending, timeout>>

BoardStart == HHMM(10, 30)

\* the period of the intervals passes; Redis expires heartbeats meanwhile
Elapse ==
    /\ now + POLL_INTERVAL <= BoardStart + MaxPolls * POLL_INTERVAL
    /\ now' = now + POLL_INTERVAL
    /\ heartbeat' = Live(heartbeat, now')
    /\ due' = intervals
    /\ UNCHANGED <<file_status, level_status, mtime, f_in, f_out, q_out, s_out,
                   m_in, m_out, file_plan, components, lastUpdateTime, currentTime,
                   loading, isConnected, timer, timeTimer, chartTimer,
                   selectedComponent, historyData, stage, pending, intervals,
                   timeout>>

\* c1 with a heartbeat that ages from healthy to warning, or one that reports
\* the process gone and is about to expire, or none; c2 with a fresh one
BoardHeartbeats ==
    LET h1 == {Empty} \cup
              { "c1" :> [component_id |-> "c1", process_exists |-> (age = 20),
                         timestamp |-> BoardStart - age, declared_level |-> 4,
                         received_at |-> BoardStart - age] :
                  age \in {20, HEARTBEAT_TTL - 20} }
        h2 == {Empty,
               "c2" :> [component_id |-> "c2", process_exists |-> TRUE,
                        timestamp |-> BoardStart, declared_level |-> NoneInt,
                        received_at |-> BoardStart]}
    IN  {a @@ b : a \in h1, b \in h2}

InitBoard ==
    /\ now = BoardStart
    /\ heartbeat \in BoardHeartbeats
    /\ mtime \in {[p \in Paths |-> NoneInt], [p \in Paths |-> BoardStart]}
    /\ file_status \in {Empty, "c1" :> FileMonitorStatus("c1", file_monitor_plan[1])}
    /\ (file_status = Empty => mtime["in1"] = BoardStart)
    /\ level_status \in {Empty} \cup
          { "c1" :> LevelRecord("c1", level_schedule[1], d, BoardStart) :
              d \in DeclaredLevels }
    /\ f_in = Empty
    /\ f_out = Empty
    /\ q_out = Empty
    /\ s_out = << >>
    /\ m_in = Empty
    /\ m_out = << >>
    /\ file_plan = file_monitor_plan
    /\ BoardCreated

NextBoard ==
    \/ Mount
    \/ \E i \in DOMAIN pending : FetchFails(i)
    \/ \E i \in DOMAIN pending : FetchResolves(i)
    \/ \E i \in DOMAIN pending : JsonSettles(i)
    \/ TimeoutFires
    \/ TimerFetch
    \/ ClockTick
    \/ Refresh
    \/ Select
    \/ Render
    \/ onUnmounted
    \/ Elapse

SpecBoard == InitBoard /\ [][NextBoard]_vars

(* One call of getOverallHealthClass, on the ComponentStatus of a component *)
(* the engine knows, over the stores of the status routes                  *)

InitVerdict ==
    /\ now = QueryTime
    /\ heartbeat \in QueryHeartbeats
    /\ mtime \in [Paths -> {NoneInt, QueryTime}]
    /\ file_status \in {Empty, "c1" :> FileMonitorStatus("c1", file_monitor_plan[1])}
    /\ level_status \in {Empty} \cup
          { "c1" :> LevelRecord("c1", level_schedule[1], d, QueryTime) :
              d \in DeclaredLevels }
    /\ f_in = Empty
    /\ f_out = Empty
    /\ q_out = Empty
    /\ s_out = << >>
    /\ m_in \in {[comp |-> get_component_status(c)] :
                    c \in {d \in Comps : get_component_status(d) # NotFound}}
    /\ m_out = << >>
    /\ file_plan = file_monitor_plan
    /\ BoardCreated

Verdict ==
    /\ m_out = << >>
    /\ m_out' = << getOverallHealthClass(m_in.comp) >>
    /\ UNCHANGED <<now, heartbeat, file_status, level_status, mtime,
                   f_in, f_out, q_out, s_out, m_in, file_plan, board>>

NextVerdict == Verdict

SpecVerdict == InitVerdict /\ [][NextVerdict]_vars

(* The trend history of a dashboard that has been polling for a while *)

\* the samples of the last k periods before t, all with the same score
Constant(n, v) == [j \in 1..n |-> v]
PastLabels(n, t) == [j \in 1..n |-> toLocaleTimeString(t - (n - j + 1) * POLL_INTERVAL)]

HistoryLengths == {0, HISTORY_LIMIT - 1, HISTORY_LIMIT}

InitHistory ==
    /\ now = BoardStart
    /\ heartbeat \in BoardHeartbeats
    /\ mtime = [p \in Paths |-> BoardStart]
    /\ file_status \in {Empty, "c1" :> FileMonitorStatus("c1", file_monitor_plan[1])}
    /\ level_status \in {Empty} \cup
          { "c1" :> LevelRecord("c1", level_schedule[1], d, BoardStart) :
              d \in DeclaredLevels }
    /\ f_in = Empty
    /\ f_out = Empty
    /\ q_out = Empty
    /\ s_out = << >>
    /\ m_in = Empty
    /\ m_out = << >>
    /\ file_plan = file_monitor_plan
    /\ \E keys \in get_keys_by_pattern(heartbeat) :
          components = get_all_status(keys).components
    /\ lastUpdateTime = formatDateTime(BoardStart)
    /\ currentTime = formatDateTime(BoardStart)
    /\ loading = FALSE
    /\ isConnected = TRUE
    /\ timer = "fetch"
    /\ timeTimer = "clock"
    /\ chartTimer = "history"
    /\ selectedComponent =
          IF Len(components) > 0 THEN components[1].component_id ELSE ""
    /\ \E n \in HistoryLengths :
          historyData =
              [id \in {components[i].component_id : i \in DOMAIN components} |->
                  LET comp == CHOOSE c \in {components[i] : i \in DOMAIN components} :
                                  c.component_id = id
                  IN  [labels |-> PastLabels(n, BoardStart),
                       data |-> Constant(n, Score(comp))]]
    /\ stage = "mounted"
    /\ pending = << >>
    /\ intervals = {"fetch", "clock", "history"}
    /\ due = {}
    /\ timeout = FALSE

NextHistory ==
    \/ Elapse
    \/ HistoryTick
    \/ TimerFetch
    \/ \E i \in DOMAIN pending : FetchFails(i)
    \/ \E i \in DOMAIN pending : FetchResolves(i)
    \/ \E i \in DOMAIN pending : JsonSettles(i)

SpecHistory == InitHistory /\ [][NextHistory]_vars

----------------------------------------------------------------------------
(* One call of is_time_in_range, over triples of times of day *)

RangeTimes ==
    {HHMM(0, 0), HHMM(6, 0), HHMM(9, 0), HHMM(10, 0), HHMM(11, 0), HHMM(12, 0),
     HHMM(22, 0), HHMM(23, 30), HHMM(23, 59) + 59}

InitRange ==
    /\ now = StartTime
    /\ heartbeat = Empty
    /\ file_status = Empty
    /\ level_status = Empty
    /\ mtime = [p \in Paths |-> NoneInt]
    /\ f_in = Empty
    /\ f_out = Empty
    /\ q_out = Empty
    /\ s_out = << >>
    /\ m_in \in [check_time : RangeTimes, start_time : RangeTimes, end_time : RangeTimes]
    /\ m_out = << >>
    /\ file_plan = file_monitor_plan
    /\ BoardCreated

InRange ==
    /\ m_out = << >>
    /\ m_out' = << is_time_in_range(m_in.check_time, m_in.start_time, m_in.end_time) >>
    /\ UNCHANGED <<now, heartbeat, file_status, level_status, mtime,
                 f_in, f_out, q_out, s_out, m_in, file_plan, board>>

NextRange == InRange

SpecRange == InitRange /\ [][NextRange]_vars

----------------------------------------------------------------------------
(* Repeated calls of find_matching_schedule_rule, over rule lists and clocks *)

MaxRules == 3

MatchRules ==
    {LevelRule(<<9, 15>>, <<10, 30>>, 4, "continuous_trading"),
     LevelRule(<<9, 15>>, <<10, 30>>, 3, "auction"),
     LevelRule(<<10, 29>>, <<10, 31>>, 2, "closing"),
     LevelRule(<<22, 0>>, <<6, 0>>, 1, "overnight"),
     LevelRule(<<9, 15>>, <<11, 30>>, 4, "morning"),
     LevelRule(<<11, 30>>, <<13, 0>>, 2, "midday")}

MatchRuleLists == UNION {[1..n -> MatchRules] : n \in 0..MaxRules}

\* the last one is 10:29:30 of the next day
MatchNows ==
    {HHMM(5, 0), HHMM(9, 14) + 59, HHMM(9, 15), HHMM(10, 29), HHMM(10, 30),
     HHMM(10, 30) + 30, HHMM(10, 31), HHMM(10, 32), HHMM(11, 30),
     HHMM(11, 30) + 1, HHMM(13, 0), HHMM(23, 30), 86400 + HHMM(10, 29) + 30}

InitMatch ==
    /\ now \in MatchNows
    /\ heartbeat = Empty
    /\ file_status = Empty
    /\ level_status = Empty
    /\ mtime = [p \in Paths |-> NoneInt]
    /\ f_in = Empty
    /\ f_out = Empty
    /\ q_out = Empty
    /\ s_out = << >>
    /\ m_in \in [rules : MatchRuleLists]
    /\ m_out = << >>
    /\ file_plan = file_monitor_plan
    /\ BoardCreated

MatchRule ==
    /\ Len(m_out) < MaxEvals
    /\ m_out' = Append(m_out, find_matching_schedule_rule(m_in.rules, now))
    /\ UNCHANGED <<now, heartbeat, file_status, level_status, mtime,
                 f_in, f_out, q_out, s_out, m_in, file_plan, board>>

NextMatch == MatchRule

SpecMatch == InitMatch /\ [][NextMatch]_vars

----------------------------------------------------------------------------
(* Properties *)

HeartbeatClass(c) == calculate_heartbeat_status(get_json(heartbeat, c))

Answered(c) == c \in DOMAIN q_out /\ q_out[c] # NotFound

\* C1: a component whose heartbeat record is missing, or whose heartbeat is
\* classified offline or critical, has overall status critical, whatever its
\* file-monitor and level records are (absent, ok or failing).
C1_CriticalRule ==
    \A c \in Comps :
        (Answered(c) /\ HeartbeatClass(c) \in {"offline", "critical"})
            => q_out[c].overall_status = "critical"

\* the heartbeat is missing while both other records are present and ok
C1_Witness ==
    \E c \in Comps :
        /\ Answered(c)
        /\ c \notin DOMAIN heartbeat
        /\ c \in DOMAIN file_status /\ file_status[c].overall_file_health
        /\ c \in DOMAIN level_status /\ level_status[c].compliant
        /\ q_out[c].overall_status = "critical"

\* C2: for a live heartbeat with process_exists = true and delta = now -
\* observed_at, the class is healthy iff delta <= interval, warning iff
\* interval < delta <= 2 * interval, critical iff delta > 2 * interval.
C2_Thresholds ==
    \A c \in Comps :
        (Answered(c) /\ c \in DOMAIN heartbeat /\ heartbeat[c].process_exists) =>
            LET delta == now - heartbeat[c].timestamp
                class == q_out[c].heartbeat.status
            IN  /\ class = "healthy" <=> delta <= HEARTBEAT_INTERVAL_SEC
                /\ class = "warning" <=> /\ HEARTBEAT_INTERVAL_SEC < delta
                                         /\ delta <= 2 * HEARTBEAT_INTERVAL_SEC
                /\ class = "critical" <=> delta > 2 * HEARTBEAT_INTERVAL_SEC

\* delta is exactly twice the interval and the class is warning
C2_Witness ==
    \E c \in Comps :
        /\ Answered(c) /\ c \in DOMAIN heartbeat /\ heartbeat[c].process_exists
        /\ now - heartbeat[c].timestamp = 2 * HEARTBEAT_INTERVAL_SEC
        /\ q_out[c].heartbeat.status = "warning"

\* C3: a heartbeat with process_exists = false is classified critical for
\* every delta, also when delta <= interval.
C3_ProcessGone ==
    \A c \in Comps :
        (Answered(c) /\ c \in DOMAIN heartbeat /\ ~heartbeat[c].process_exists)
            => q_out[c].heartbeat.status = "critical"

\* a signal of this very second with process_exists = false is critical
C3_Witness ==
    \E c \in Comps :
        /\ Answered(c) /\ c \in DOMAIN heartbeat /\ ~heartbeat[c].process_exists
        /\ now - heartbeat[c].timestamp <= HEARTBEAT_INTERVAL_SEC
        /\ q_out[c].heartbeat.status = "critical"

\* C4: a heartbeat stored at time t is in the store exactly while now < t + 300
\* unless a later signal replaces it; a component without a record is
\* classified offline; a record only appears or changes by a signal of the
\* current instant, and every signal leaves a record in the store.
C4_HeartbeatExpiry ==
    /\ [](\A c \in Comps :
            IF c \in DOMAIN heartbeat
            THEN now < heartbeat[c].received_at + 300
            ELSE HeartbeatClass(c) = "offline")
    /\ [][\A c \in Comps :
            /\ (c \in DOMAIN heartbeat /\ now' < heartbeat[c].received_at + 300)
                  => c \in DOMAIN heartbeat'
            /\ (c \in DOMAIN heartbeat' /\ get_json(heartbeat, c) # heartbeat'[c])
                  => (now' = now /\ heartbeat'[c].received_at = now)
            /\ (\E pe \in BOOLEAN, lvl \in DeclaredLevels :
                    receive_heartbeat(c, pe, now, lvl))
                  => c \in DOMAIN heartbeat']_vars

\* a heartbeat that a level check had read is gone, 300 s or more later
C4_Witness ==
    \E c \in Comps :
        /\ c \notin DOMAIN heartbeat
        /\ c \in DOMAIN level_status
        /\ level_status[c].declared_level # NoneInt
        /\ now >= level_status[c].last_check + 300
        /\ HeartbeatClass(c) = "offline"

\* C5: a level check that finds no heartbeat record, or one without
\* declared_level, stores observed_level = 0 and compliant = false; one that
\* finds a declared_level stores it as observed_level.
C5_Sentinel ==
    [][scheduled_level_check =>
        \A i \in 1..Len(level_schedule) :
            LET c == level_schedule[i].component_id
                declared == IF c \in DOMAIN heartbeat
                            THEN heartbeat[c].declared_level ELSE NoneInt
            IN  /\ c \in DOMAIN level_status'
                /\ IF declared = NoneInt
                   THEN /\ level_status'[c].observed_level = 0
                        /\ ~level_status'[c].compliant
                   ELSE level_status'[c].observed_level = declared]_vars

\* checked in this instant: one component without a heartbeat, one without a
\* declared level, one with a declared level
C5_Witness ==
    /\ "c1" \in DOMAIN level_status /\ "c2" \in DOMAIN level_status
    /\ level_status["c1"].last_check = now
    /\ "c1" \notin DOMAIN heartbeat
    /\ level_status["c1"].observed_level = 0 /\ ~level_status["c1"].compliant
    /\ "c2" \in DOMAIN heartbeat /\ heartbeat["c2"].declared_level = 4
    /\ level_status["c2"].observed_level = 4

\* C6: in every stored level record, compliant is true iff observed_level
\* equals expected_level.
C6_CompliantIsEquality ==
    \A c \in DOMAIN level_status :
        level_status[c].compliant
            <=> level_status[c].observed_level = level_status[c].expected_level

\* a reported level above the expected one is stored as non-compliant,
\* beside a compliant record
C6_Witness ==
    /\ "c1" \in DOMAIN level_status /\ "c2" \in DOMAIN level_status
    /\ level_status["c1"].compliant
    /\ level_status["c2"].observed_level > level_status["c2"].expected_level
    /\ ~level_status["c2"].compliant

FileResults(rec) ==
    {rec.input_files[i] : i \in 1..Len(rec.input_files)}
        \cup {rec.output_files[i] : i \in 1..Len(rec.output_files)}

\* C7: in every stored file-monitor record, overall_file_health is true iff
\* every file result of the record, input or output, is compliant.
C7_OverallIsConjunction ==
    \A c \in DOMAIN file_status :
        file_status[c].overall_file_health
            <=> \A r \in FileResults(file_status[c]) : r.is_compliant

\* the input file is compliant, the output file is not, the record is not ok
C7_Witness ==
    \E c \in DOMAIN file_status :
        /\ \A i \in 1..Len(file_status[c].input_files) :
                file_status[c].input_files[i].is_compliant
        /\ \E i \in 1..Len(file_status[c].output_files) :
                ~file_status[c].output_files[i].is_compliant
        /\ ~file_status[c].overall_file_health

\* the latest trigger at or before t
last_due_before(cron, t) == PrevFrom(cron, (t \div 60) * 60)

Checked == f_out # Empty

\* C8: for an existing file, is_compliant is true iff its modification time
\* is at or after last_due_before(rule, now) - grace_period, the latest
\* trigger at or before now; with "every 5 minutes", grace 30 s and now =
\* 10:30:00 a file of 10:29:35 is compliant and one of 10:29:20 is not.
C8_ComplianceAtOrBeforeNow ==
    (Checked /\ mtime[f_in.path] # NoneInt) =>
        /\ f_out.is_compliant
              <=> mtime[f_in.path] >= last_due_before(f_in.expected_update_cron, now)
                                        - f_in.grace_period_sec
        /\ (/\ f_in.expected_update_cron = EVERY_5_MINUTES
            /\ f_in.grace_period_sec = 30
            /\ now = HHMM(10, 30))
              => /\ mtime[f_in.path] = HHMM(10, 29) + 35 => f_out.is_compliant
                 /\ mtime[f_in.path] = HHMM(10, 29) + 20 => ~f_out.is_compliant

C10_FutureIsCompliant ==
    (Checked /\ mtime[f_in.path] # NoneInt /\ mtime[f_in.path] > now)
        => (f_out.is_compliant /\ f_out.alert_message = NoneStr)

\* a file dated hours ahead of the clock has been checked and is compliant
C10_Witness ==
    /\ Checked
    /\ mtime[f_in.path] = FarFuture
    /\ f_out.is_compliant

\* C11: is_time_in_range(check, start, end): when start <= end it is true iff
\* start <= check <= end; when start > end it is true iff check >= start or
\* check <= end; 23:30 is in 22:00-06:00 and 12:00 is not.
C11_InRange ==
    m_out # << >> =>
        LET check == m_in.check_time
            start == m_in.start_time
            end == m_in.end_time
        IN  /\ start <= end => (m_out[1] <=> (start <= check /\ check <= end))
            /\ start > end => (m_out[1] <=> (check >= start \/ check <= end))
            /\ (start = HHMM(22, 0) /\ end = HHMM(6, 0)) =>
                  /\ check = HHMM(23, 30) => m_out[1] = TRUE
                  /\ check = HHMM(12, 0) => m_out[1] = FALSE

\* the end of an overnight range is in the range
C11_Witness ==
    /\ m_out = << TRUE >>
    /\ m_in.start_time = HHMM(22, 0)
    /\ m_in.end_time = HHMM(6, 0)
    /\ m_in.check_time = HHMM(6, 0)

Matching(rules, t) ==
    {i \in 1..Len(rules) :
        LET check == t % 86400
            start == rules[i].start_time[1] * 3600 + rules[i].start_time[2] * 60
            end == rules[i].end_time[1] * 3600 + rules[i].end_time[2] * 60
        IN  IF start <= end THEN start <= check /\ check <= end
            ELSE check >= start \/ check <= end}

\* C12: every evaluation of find_matching_schedule_rule returns the rule of
\* least index among those whose window contains now, and none (0) when no
\* window contains now; repeated evaluations return the same rule.
C12_FirstMatch ==
    \A k \in 1..Len(m_out) :
        /\ IF Matching(m_in.rules, now) = {}
           THEN m_out[k] = 0
           ELSE /\ m_out[k] \in Matching(m_in.rules, now)
                /\ \A j \in Matching(m_in.rules, now) : m_out[k] <= j
        /\ m_out[k] = m_out[1]

\* two rules with different levels both match, twice the first was returned
C12_Witness ==
    /\ Len(m_out) = 2
    /\ \E i, j \in Matching(m_in.rules, now) :
          i < j /\ m_in.rules[i].expected_level # m_in.rules[j].expected_level
    /\ m_out[1] = 1 /\ m_out[2] = 1

\* C13: a level check stores, for every component of the schedule, the
\* expected_level and the name of the first rule whose window contains now;
\* when no rule matches it stores the component's non_trading_day_level (1
\* when the schedule does not set one) and no rule name.
C13_ExpectedLevel ==
    [][scheduled_level_check =>
        \A i \in 1..Len(level_schedule) :
            LET cfg == level_schedule[i]
                rec == level_status'[cfg.component_id]
                matching == Matching(cfg.rules, now)
            IN  IF matching = {}
                THEN /\ rec.expected_level =
                            IF cfg.non_trading_day_level = NoneInt
                            THEN 1 ELSE cfg.non_trading_day_level
                     /\ rec.schedule_rule = NoneStr
                ELSE \E k \in matching :
                        /\ \A j \in matching : k <= j
                        /\ rec.expected_level = cfg.rules[k].expected_level
                        /\ rec.schedule_rule = cfg.rules[k].name]_vars

\* checked in this instant: two rules of c1 match and the first is stored,
\* c2 has no rule and its configured fallback level is stored
C13_Witness ==
    /\ "c1" \in DOMAIN level_status /\ "c2" \in DOMAIN level_status
    /\ level_status["c1"].last_check = now
    /\ level_status["c2"].last_check = now
    /\ Cardinality(Matching(level_schedule[1].rules, now)) = 2
    /\ level_status["c1"].schedule_rule = "continuous_trading"
    /\ level_status["c1"].expected_level = 4
    /\ level_status["c2"].schedule_rule = NoneStr
    /\ level_status["c2"].expected_level = 3

FilesFailing(c) == c \in DOMAIN file_status /\ ~file_status[c].overall_file_health

LevelFailing(c) == c \in DOMAIN level_status /\ ~level_status[c].compliant

\* C14: when the heartbeat is present and classified healthy or warning, the
\* overall status is warning if the file-monitor record is present and not
\* ok, or the level record is present and not compliant, or the heartbeat
\* class is warning.
C14_WarningRule ==
    \A c \in Comps :
        (/\ Answered(c)
         /\ c \in DOMAIN heartbeat
         /\ HeartbeatClass(c) \in {"healthy", "warning"}
         /\ (FilesFailing(c) \/ LevelFailing(c) \/ HeartbeatClass(c) = "warning"))
            => q_out[c].overall_status = "warning"

\* heartbeat healthy, files not ok, level compliant: warning
C14_Witness ==
    \E c \in Comps :
        /\ Answered(c)
        /\ HeartbeatClass(c) = "healthy"
        /\ FilesFailing(c)
        /\ c \in DOMAIN level_status /\ level_status[c].compliant
        /\ q_out[c].overall_status = "warning"

\* C15: the overall status is healthy when the heartbeat is classified
\* healthy and the file-monitor record is present and ok and the level record
\* is present and compliant; it is never healthy when the heartbeat is
\* missing or not healthy, or the file record or the level record is failing.
C15_HealthyRule ==
    \A c \in Comps :
        Answered(c) =>
            /\ (/\ HeartbeatClass(c) = "healthy"
                /\ c \in DOMAIN file_status /\ file_status[c].overall_file_health
                /\ c \in DOMAIN level_status /\ level_status[c].compliant)
                  => q_out[c].overall_status = "healthy"
            /\ q_out[c].overall_status = "healthy"
                  => /\ c \in DOMAIN heartbeat
                     /\ HeartbeatClass(c) = "healthy"
                     /\ ~FilesFailing(c)
                     /\ ~LevelFailing(c)

\* all three records present and good: healthy
C15_Witness ==
    \E c \in Comps :
        /\ Answered(c)
        /\ HeartbeatClass(c) = "healthy"
        /\ c \in DOMAIN file_status /\ file_status[c].overall_file_health
        /\ c \in DOMAIN level_status /\ level_status[c].compliant
        /\ q_out[c].overall_status = "healthy"

\* C16: when the heartbeat is classified healthy and the component has
\* neither a file-monitor record nor a level record, the overall status is
\* unknown, not healthy.
C16_UnknownRule ==
    \A c \in Comps :
        (/\ Answered(c)
         /\ HeartbeatClass(c) = "healthy"
         /\ c \notin DOMAIN file_status
         /\ c \notin DOMAIN level_status)
            => (q_out[c].overall_status = "unknown"
                /\ q_out[c].file_status = NoneRec
                /\ q_out[c].level_status = NoneRec)

\* a healthy heartbeat alone has been answered with unknown
C16_Witness ==
    \E c \in Comps :
        /\ Answered(c)
        /\ HeartbeatClass(c) = "healthy"
        /\ c \notin DOMAIN file_status
        /\ c \notin DOMAIN level_status
        /\ q_out[c].overall_status = "unknown"

Listed(response) ==
    {response.components[i].component_id : i \in DOMAIN response.components}

\* C17: the answer of GET /status holds exactly one ComponentStatus for every
\* component id that has a heartbeat, a file-monitor or a level record (also
\* when its heartbeat has expired), and none for any other id.
C17_FleetIsUnion ==
    \A k \in DOMAIN s_out :
        /\ Listed(s_out[k])
              = DOMAIN heartbeat \cup DOMAIN file_status \cup DOMAIN level_status
        /\ \A i, j \in DOMAIN s_out[k].components :
              s_out[k].components[i].component_id
                    = s_out[k].components[j].component_id
                  => i = j

\* C18: in the answer of GET /status every returned component is counted
\* once, under the count of its overall class: each count is the number of
\* components of its class and the counts sum to the number of components.
C18_CountsPartition ==
    \A k \in DOMAIN s_out :
        /\ s_out[k].healthy_count = CountOf(s_out[k].components, "healthy")
        /\ s_out[k].warning_count = CountOf(s_out[k].components, "warning")
        /\ s_out[k].critical_count = CountOf(s_out[k].components, "critical")
        /\ s_out[k].healthy_count + s_out[k].warning_count + s_out[k].critical_count
              = Len(s_out[k].components)

\* C19: GET /status/{component_id} answers not-found iff the store holds no
\* heartbeat, no file-monitor and no level record of the id; otherwise it
\* answers with the ComponentStatus of the id, in which exactly the
\* categories without a record are None.
C19_NotFoundIffNoRecord ==
    \A c \in DOMAIN q_out :
        /\ q_out[c] = NotFound <=> /\ c \notin DOMAIN heartbeat
                                   /\ c \notin DOMAIN file_status
                                   /\ c \notin DOMAIN level_status
        /\ q_out[c] # NotFound =>
              /\ q_out[c].component_id = c
              /\ q_out[c].heartbeat = NoneRec <=> c \notin DOMAIN heartbeat
              /\ q_out[c].file_status = NoneRec <=> c \notin DOMAIN file_status
              /\ q_out[c].level_status = NoneRec <=> c \notin DOMAIN level_status
              /\ c \in DOMAIN file_status => q_out[c].file_status = file_status[c]
              /\ c \in DOMAIN level_status => q_out[c].level_status = level_status[c]

\* one component is answered from its level record alone, the other one has
\* no record and is not found
C19_Witness ==
    /\ "c1" \in DOMAIN q_out /\ "c2" \in DOMAIN q_out
    /\ "c1" \notin DOMAIN heartbeat
    /\ "c1" \notin DOMAIN file_status
    /\ "c1" \in DOMAIN level_status
    /\ q_out["c1"] # NotFound
    /\ q_out["c1"].heartbeat = NoneRec
    /\ q_out["c2"] = NotFound

\* C20: every store holds at most one record per component, filed under the
\* component's own id; a signal leaves exactly the record of its own fields
\* (nothing of the record it replaces is kept) and touches no other
\* component's record; a heartbeat record changes by a signal only; a level
\* or file check leaves for each of its components the record of that check.
C20_LastWriteWins ==
    /\ [](/\ DOMAIN heartbeat \subseteq Comps
          /\ DOMAIN file_status \subseteq Comps
          /\ DOMAIN level_status \subseteq Comps
          /\ \A c \in DOMAIN heartbeat : heartbeat[c].component_id = c
          /\ \A c \in DOMAIN file_status : file_status[c].component_id = c
          /\ \A c \in DOMAIN level_status : level_status[c].component_id = c)
    /\ [][/\ \A c \in Comps, pe \in BOOLEAN, lvl \in DeclaredLevels :
                receive_heartbeat(c, pe, now, lvl) =>
                    /\ heartbeat'[c] = [component_id |-> c,
                                        process_exists |-> pe,
                                        timestamp |-> now,
                                        declared_level |-> lvl,
                                        received_at |-> now]
                    /\ \A d \in Comps \ {c} :
                          get_json(heartbeat', d) = get_json(heartbeat, d)
          /\ \A c \in DOMAIN heartbeat \cap DOMAIN heartbeat' :
                heartbeat'[c] # heartbeat[c] =>
                    \E pe \in BOOLEAN, lvl \in DeclaredLevels :
                        receive_heartbeat(c, pe, now, lvl)
          /\ scheduled_level_check =>
                \A i \in 1..Len(level_schedule) :
                    LET c == level_schedule[i].component_id
                    IN  /\ level_status'[c].last_check = now
                        /\ level_status'[c].declared_level =
                              IF c \in DOMAIN heartbeat
                              THEN heartbeat[c].declared_level ELSE NoneInt
          /\ scheduled_file_check =>
                \A i \in 1..Len(file_monitor_plan) :
                    LET c == file_monitor_plan[i].component_id
                    IN  /\ file_status'[c].checked_at = now
                        /\ \A r \in FileResults(file_status'[c]) :
                              r.last_modified = mtime[r.path]]_vars

\* a signal that declared level 4 was read by a level check, and a later
\* signal without a level has replaced it: the stored record has no level
C20_Witness ==
    \E c \in Comps :
        /\ c \in DOMAIN heartbeat /\ c \in DOMAIN level_status
        /\ c \in DOMAIN file_status
        /\ level_status[c].declared_level = 4
        /\ heartbeat[c].declared_level = NoneInt
        /\ heartbeat[c].received_at > level_status[c].last_check
        /\ now < level_status[c].last_check + HEARTBEAT_TTL

SpecsOf(cfg) ==
    {cfg.input_files[k] : k \in 1..Len(cfg.input_files)}
        \cup {cfg.output_files[k] : k \in 1..Len(cfg.output_files)}

\* the result a component's record holds for one file of its plan
ResultOf(rec, f) == CHOOSE r \in FileResults(rec) : r.path = f.path

\* C21: a file check that finds a file of a component missing still stores,
\* for every component of the plan, a record of this check with one result
\* per file of the plan: the alert and is_compliant = false for a missing
\* file, and for every other file the verdict of its own modification time.
C21_MissingFileIsolated ==
    [][scheduled_file_check =>
        \A i \in 1..Len(file_plan) :
            LET cfg == file_plan[i]
                c == cfg.component_id
            IN  /\ c \in DOMAIN file_status'
                /\ file_status'[c].checked_at = now
                /\ Len(file_status'[c].input_files) = Len(cfg.input_files)
                /\ Len(file_status'[c].output_files) = Len(cfg.output_files)
                /\ \A k \in 1..Len(cfg.input_files) :
                      file_status'[c].input_files[k].path = cfg.input_files[k].path
                /\ \A k \in 1..Len(cfg.output_files) :
                      file_status'[c].output_files[k].path = cfg.output_files[k].path
                /\ \A f \in SpecsOf(cfg) :
                      LET r == ResultOf(file_status'[c], f)
                      IN  IF mtime[f.path] = NoneInt
                          THEN ~r.is_compliant /\ r.alert_message # NoneStr
                          ELSE /\ r.last_modified = mtime[f.path]
                               /\ r.alert_message = NoneStr
                               /\ r.is_compliant <=>
                                     mtime[f.path] >=
                                        croniter_get_prev(f.expected_update_cron, now)
                                            - f.grace_period_sec]_vars

\* checked in this instant: the input file is missing and carries the alert,
\* the output file has been judged compliant by its modification time
C21_Witness ==
    \E c \in DOMAIN file_status :
        /\ file_status[c].checked_at = now
        /\ \E k \in DOMAIN file_status[c].input_files :
              /\ mtime[file_status[c].input_files[k].path] = NoneInt
              /\ file_status[c].input_files[k].alert_message # NoneStr
        /\ \E k \in DOMAIN file_status[c].output_files :
              /\ file_status[c].output_files[k].last_modified # NoneInt
              /\ file_status[c].output_files[k].last_modified
                    = mtime[file_status[c].output_files[k].path]
              /\ file_status[c].output_files[k].is_compliant

\* C22: a file check over a plan with a malformed cron expression still
\* stores, for every component of the plan, a record of this check with one
\* result per file: an alert for the file with the malformed expression, and
\* the usual result for every other file.
C22_MalformedCronIsolated ==
    [][scheduled_file_check =>
        \A i \in 1..Len(file_plan) :
            LET cfg == file_plan[i]
                c == cfg.component_id
            IN  /\ c \in DOMAIN file_status'
                /\ file_status'[c].checked_at = now
                /\ Len(file_status'[c].input_files) = Len(cfg.input_files)
                /\ Len(file_status'[c].output_files) = Len(cfg.output_files)
                /\ \A f \in SpecsOf(cfg) :
                      \E r \in FileResults(file_status'[c]) :
                          /\ r.path = f.path
                          /\ IF croniter_is_valid(f.expected_update_cron)
                             THEN /\ r.last_modified = mtime[f.path]
                                  /\ mtime[f.path] # NoneInt =>
                                        (r.is_compliant <=>
                                            mtime[f.path] >=
                                              croniter_get_prev(f.expected_update_cron,
                                                                now)
                                                - f.grace_period_sec)
                             ELSE r.alert_message # NoneStr]_vars

\* the file metadata is what the record rec was computed from
SameFiles(rec) == \A r \in FileResults(rec) : r.last_modified = mtime[r.path]

\* the schedules of cfg have the same last and next due instants at t1 and t2
SameDue(cfg, t1, t2) ==
    \A f \in SpecsOf(cfg) :
        /\ croniter_get_prev(f.expected_update_cron, t1)
              = croniter_get_prev(f.expected_update_cron, t2)
        /\ next_due_after(f.expected_update_cron, t1)
              = next_due_after(f.expected_update_cron, t2)

\* the heartbeat declares what the record rec was computed from, and the
\* rule that matches now is the one that matched then
SameLevelInputs(cfg, rec) ==
    /\ rec.declared_level = IF cfg.component_id \in DOMAIN heartbeat
                            THEN heartbeat[cfg.component_id].declared_level
                            ELSE NoneInt
    /\ Matching(cfg.rules, rec.last_check) = Matching(cfg.rules, now)

\* C23 as stated: a file check or a level check over the inputs of the
\* stored record (same plan, same file metadata; same heartbeat record, same
\* rule match) stores a record equal to it in every field but the time of
\* the check.
C23_RerunEqualButCheckedAt ==
    [][/\ scheduled_file_check =>
            \A i \in 1..Len(file_plan) :
                LET c == file_plan[i].component_id
                IN  (c \in DOMAIN file_status /\ SameFiles(file_status[c])) =>
                        [file_status'[c] EXCEPT !.checked_at = 0]
                            = [file_status[c] EXCEPT !.checked_at = 0]
       /\ scheduled_level_check =>
            \A i \in 1..Len(level_schedule) :
                LET c == level_schedule[i].component_id
                IN  (/\ c \in DOMAIN level_status
                     /\ SameLevelInputs(level_schedule[i], level_status[c])) =>
                        [level_status'[c] EXCEPT !.last_check = 0]
                            = [level_status[c] EXCEPT !.last_check = 0]]_vars

\* C23: a file check over the plan and the file metadata of the stored
\* record, at a time with the same last and next due instants, and a level
\* check over the heartbeat record and the rule match of the stored record,
\* store a record equal to it in every field but the time of the check
\* (checked_at of the file record, last_check of the level record).
C23_RerunEqualSameDue ==
    [][/\ scheduled_file_check =>
            \A i \in 1..Len(file_plan) :
                LET c == file_plan[i].component_id
                IN  (/\ c \in DOMAIN file_status
                     /\ SameFiles(file_status[c])
                     /\ SameDue(file_plan[i], file_status[c].checked_at, now)) =>
                        [file_status'[c] EXCEPT !.checked_at = 0]
                            = [file_status[c] EXCEPT !.checked_at = 0]
       /\ scheduled_level_check =>
            \A i \in 1..Len(level_schedule) :
                LET c == level_schedule[i].component_id
                IN  (/\ c \in DOMAIN level_status
                     /\ SameLevelInputs(level_schedule[i], level_status[c])) =>
                        [level_status'[c] EXCEPT !.last_check = 0]
                            = [level_status[c] EXCEPT !.last_check = 0]]_vars

\* both records of a component are of an earlier minute, a file is there,
\* and nothing they were computed from has changed since: the next file
\* check and the next level check are re-runs
C23_Witness ==
    \E i \in 1..Len(file_plan), j \in 1..Len(level_schedule) :
        LET c == file_plan[i].component_id
        IN  /\ level_schedule[j].component_id = c
            /\ c \in DOMAIN file_status /\ c \in DOMAIN level_status
            /\ c \in DOMAIN heartbeat
            /\ file_status[c].checked_at < now
            /\ level_status[c].last_check < now
            /\ \E r \in FileResults(file_status[c]) : r.last_modified # NoneInt
            /\ SameFiles(file_status[c])
            /\ SameDue(file_plan[i], file_status[c].checked_at, now)
            /\ SameLevelInputs(level_schedule[j], level_status[c])

\* C24: two evaluations over the same store at the same time give equal
\* answers: every answer of GET /status equals every other one, and the
\* answer of GET /status/{component_id} is the one a second evaluation gives.
C24_SameSnapshotSameAnswer ==
    /\ \A i, j \in DOMAIN s_out : s_out[i] = s_out[j]
    /\ \A c \in DOMAIN q_out : q_out[c] = get_component_status(c)

\* C25: a signal changes the heartbeat record of its component and no other
\* record; a file check changes file-monitor records only, and only those of
\* the components of the plan; a level check changes level records only; the
\* status routes change no record.
C25_WriteOwnership ==
    [][/\ \A c \in Comps, pe \in BOOLEAN, lvl \in DeclaredLevels :
            receive_heartbeat(c, pe, now, lvl) =>
                /\ file_status' = file_status
                /\ level_status' = level_status
                /\ \A d \in Comps \ {c} :
                      get_json(heartbeat', d) = get_json(heartbeat, d)
       /\ scheduled_file_check =>
            /\ heartbeat' = heartbeat
            /\ level_status' = level_status
            /\ \A d \in Comps :
                  (\A i \in 1..Len(file_plan) : file_plan[i].component_id # d)
                      => get_json(file_status', d) = get_json(file_status, d)
       /\ scheduled_level_check =>
            /\ heartbeat' = heartbeat
            /\ file_status' = file_status
       /\ (q_out' # q_out \/ s_out' # s_out) =>
            /\ heartbeat' = heartbeat
            /\ file_status' = file_status
            /\ level_status' = level_status
       /\ heartbeat' # heartbeat =>
            (file_status' = file_status /\ level_status' = level_status)
       /\ file_status' # file_status =>
            (heartbeat' = heartbeat /\ level_status' = level_status)
       /\ level_status' # level_status =>
            (heartbeat' = heartbeat /\ file_status' = file_status)]_vars

\* a level check, then a signal of one component that declares a level, a
\* file check and a request have all acted: the level record still shows no
\* declared level and the other component still has no heartbeat
C25_Witness ==
    \E c \in Comps, d \in Comps :
        /\ c # d
        /\ c \in DOMAIN heartbeat /\ heartbeat[c].declared_level = 4
        /\ d \notin DOMAIN heartbeat
        /\ c \in DOMAIN level_status /\ level_status[c].declared_level = NoneInt
        /\ d \in DOMAIN level_status
        /\ c \in DOMAIN file_status
        /\ (q_out # Empty \/ s_out # << >>)

\* C26: a level check that runs while a component has no heartbeat record
\* stores, for that component, a record of this check with observed_level 0
\* and compliant false, whatever record it had before.
C26_StaleVerdictReplaced ==
    [][\A c \in Comps :
          (scheduled_level_check /\ c \notin DOMAIN heartbeat) =>
              /\ c \in DOMAIN level_status'
              /\ level_status'[c].last_check = now
              /\ level_status'[c].observed_level = 0
              /\ level_status'[c].declared_level = NoneInt
              /\ ~level_status'[c].compliant]_vars

\* the heartbeat of a component has expired and the record of an earlier
\* check, made while it was live, still says compliant
C26_Witness ==
    \E c \in Comps :
        /\ c \notin DOMAIN heartbeat
        /\ c \in DOMAIN level_status
        /\ level_status[c].compliant
        /\ level_status[c].observed_level = 4
        /\ level_status[c].last_check + TICK_INTERVAL <= now

\* C27: the last due instant the check uses and the next_expected_update it
\* reports bracket the time of the check: last <= now <= next, both are
\* trigger instants, no trigger lies strictly between them, and when now is
\* itself a trigger instant both equal now ("every 5 minutes" at 10:30:00
\* gives a last due instant of 10:30:00).
C27_CronBracketing ==
    (Checked /\ mtime[f_in.path] # NoneInt) =>
        LET cron == f_in.expected_update_cron
            last == croniter_get_prev(cron, now)
            next == f_out.next_expected_update
        IN  /\ last <= now /\ now <= next
            /\ CronMatches(cron, last) /\ CronMatches(cron, next)
            /\ \A k \in (last \div 60) + 1 .. (next \div 60) - 1 :
                  ~CronMatches(cron, k * 60)
            /\ CronMatches(cron, now) => (last = now /\ next = now)
            /\ (cron = EVERY_5_MINUTES /\ now = HHMM(10, 30)) => last = HHMM(10, 30)

\* the rules whose window, taken without its end_time, contains t
MatchingHalfOpen(rules, t) ==
    {i \in 1..Len(rules) :
        LET check == t % 86400
            start == rules[i].start_time[1] * 3600 + rules[i].start_time[2] * 60
            end == rules[i].end_time[1] * 3600 + rules[i].end_time[2] * 60
        IN  IF start <= end THEN start <= check /\ check < end
            ELSE check >= start \/ check < end}

StartOf(rule) == rule.start_time[1] * 3600 + rule.start_time[2] * 60
EndOf(rule) == rule.end_time[1] * 3600 + rule.end_time[2] * 60

MORNING == LevelRule(<<9, 15>>, <<11, 30>>, 4, "morning")
MIDDAY == LevelRule(<<11, 30>>, <<13, 0>>, 2, "midday")

\* C28 as stated: the window of a rule is [start, end): the rule returned is
\* the first whose window without its end_time contains now, so a rule alone
\* matches at its start_time and not at its end_time, and with the adjacent
\* rules 09:15-11:30 and 11:30-13:00 in that order, 11:30 yields the second.
C28_HalfOpenWindow ==
    \A k \in 1..Len(m_out) :
        /\ IF MatchingHalfOpen(m_in.rules, now) = {}
           THEN m_out[k] = 0
           ELSE /\ m_out[k] \in MatchingHalfOpen(m_in.rules, now)
                /\ \A j \in MatchingHalfOpen(m_in.rules, now) : m_out[k] <= j
        /\ (m_in.rules = <<MORNING, MIDDAY>> /\ now = HHMM(11, 30)) => m_out[k] = 2

\* C28: the window of a rule is closed, [start, end]: a first rule matches
\* when the time of day equals its start_time and also when it equals its
\* end_time, and does not match one second past its end_time (for a window
\* within one day); with the adjacent rules 09:15-11:30 and 11:30-13:00 in
\* that order, 11:30:00 yields the first and 11:30:01 the second.
C28_ClosedWindow ==
    \A k \in 1..Len(m_out) :
        /\ Len(m_in.rules) >= 1 =>
              LET rule == m_in.rules[1]
              IN  /\ now % 86400 = StartOf(rule) => m_out[k] = 1
                  /\ now % 86400 = EndOf(rule) => m_out[k] = 1
                  /\ (StartOf(rule) <= EndOf(rule) /\ now % 86400 = EndOf(rule) + 1)
                        => m_out[k] # 1
        /\ m_in.rules = <<MORNING, MIDDAY>> =>
              /\ now = HHMM(11, 30) => m_out[k] = 1
              /\ now = HHMM(11, 30) + 1 => m_out[k] = 2
              /\ now = HHMM(13, 0) => m_out[k] = 2

\* the adjacent rules, evaluated at the instant they share
C28_Witness ==
    /\ m_in.rules = <<MORNING, MIDDAY>>
    /\ now = HHMM(11, 30)
    /\ Len(m_out) >= 1
    /\ m_out[1] = 1

\* C29: a file-monitor record and a level record, once written, are there in
\* every later state: no step removes one, and time passing, which expires
\* heartbeat records, leaves both stores as they are.
C29_RecordsNeverExpire ==
    [][/\ \A c \in Comps :
            /\ c \in DOMAIN file_status => c \in DOMAIN file_status'
            /\ c \in DOMAIN level_status => c \in DOMAIN level_status'
       /\ now' # now => (file_status' = file_status /\ level_status' = level_status)]_vars

\* a component declared its level, the jobs recorded it, its heartbeat has
\* expired, and both records, older than the heartbeat's time-to-live, are
\* still there
C29_Witness ==
    \E c \in Comps :
        /\ c \notin DOMAIN heartbeat
        /\ c \in DOMAIN level_status
        /\ level_status[c].declared_level = 4
        /\ level_status[c].last_check + HEARTBEAT_TTL <= now
        /\ c \in DOMAIN file_status
        /\ file_status[c].checked_at + HEARTBEAT_TTL <= now

\* HealthClass, in order: offline < critical < warning < healthy
ClassRank(class) ==
    CASE class = "offline" -> 0
      [] class = "critical" -> 1
      [] class = "warning" -> 2
      [] class = "healthy" -> 3

\* C30: in a step that ingests no signal of a component (its heartbeat
\* record stays as it is, or expires), the heartbeat class of the component
\* does not move toward healthy; it moves toward healthy only in a step that
\* stores a heartbeat record for it.
C30_ClassNeverImprovesUnsignalled ==
    [][\A c \in Comps :
          /\ (get_json(heartbeat', c) = get_json(heartbeat, c) \/ c \notin DOMAIN heartbeat')
                => ClassRank(HeartbeatClass(c)') <= ClassRank(HeartbeatClass(c))
          /\ ClassRank(HeartbeatClass(c)') > ClassRank(HeartbeatClass(c))
                => (c \in DOMAIN heartbeat' /\ heartbeat'[c].received_at = now')]_vars

\* a heartbeat that reported a running process, four minutes old and not yet
\* expired, classified critical by its age alone
C30_Witness ==
    \E c \in Comps :
        /\ c \in DOMAIN heartbeat
        /\ heartbeat[c].process_exists
        /\ now - heartbeat[c].received_at = 4 * TICK_INTERVAL
        /\ HeartbeatClass(c) = "critical"

\* HealthClass
HealthClasses == {"offline", "critical", "warning", "healthy", "unknown"}

C32_NeverOffline ==
    /\ \A c \in Comps : Answered(c) =>
          /\ q_out[c].overall_status # "offline"
          /\ q_out[c].heartbeat = NoneRec => q_out[c].overall_status = "critical"
    /\ \A k \in 1..Len(s_out) : CountOf(s_out[k].components, "offline") = 0

\* a component whose heartbeat has expired, known by its file-monitor record
\* alone, has been answered, and the fleet has been answered with a component
C32_Witness ==
    \E c \in Comps :
        /\ Answered(c)
        /\ q_out[c].heartbeat = NoneRec
        /\ q_out[c].level_status = NoneRec
        /\ q_out[c].overall_status = "critical"
        /\ Len(s_out) >= 1
        /\ Len(s_out[1].components) >= 1

\* C33: at most one status request of the dashboard is in flight at any
\* time, loading is true exactly while one is, a call of fetchData made
\* while loading is true issues no request, and the step in which a request
\* finishes (failed, non-OK, unparseable or successful) leaves loading false.
C33_OneRequestInFlight ==
    /\ [](Len(pending) <= 1 /\ (loading <=> Len(pending) = 1))
    /\ [][/\ (loading /\ (Refresh \/ TimerFetch)) => pending' = pending
          /\ Len(pending') < Len(pending) => ~loading']_vars

\* an earlier request has failed, a later one, started by the button, is in
\* flight after a period of the timer has passed, and the timer is not due
C33_Witness ==
    /\ ~isConnected
    /\ loading
    /\ Len(pending) = 1
    /\ pending[1].caller = "button"
    /\ "fetch" \in intervals
    /\ "fetch" \notin due
    /\ now > BoardStart

\* C34: once the dashboard is unmounted the browser holds none of its
\* intervals (status fetch, clock, history) and no fetch is issued any more,
\* also when the unmount comes while onMounted awaits the first fetch.
C34_NoTimerAfterUnmount ==
    /\ [](stage = "unmounted" => intervals = {})
    /\ [][stage = "unmounted" => Len(pending') <= Len(pending)]_vars

\* C35: the step that ends a status request of the dashboard: when the
\* request failed (fetch rejected or not OK, or a body that is not JSON) it
\* sets isConnected to false and leaves components, lastUpdateTime and
\* selectedComponent as they were; when it succeeded it sets isConnected to
\* true, makes components the components array of the body (the empty list
\* when the body has none) and sets selectedComponent to the id of the first
\* component only if none was selected.
C35_FetchOutcome ==
    [][Len(pending') < Len(pending) =>
          LET call == pending[1]
          IN  IF call.awaiting = "fetch" \/ call.body = NOT_JSON
              THEN /\ ~isConnected'
                   /\ components' = components
                   /\ lastUpdateTime' = lastUpdateTime
                   /\ selectedComponent' = selectedComponent
              ELSE /\ isConnected'
                   /\ components' = IF "components" \in DOMAIN call.body
                                    THEN call.body.components
                                    ELSE << >>
                   /\ selectedComponent # "" => selectedComponent' = selectedComponent
                   /\ selectedComponent = "" =>
                         selectedComponent' = IF components' = << >> THEN ""
                                              ELSE components'[1].component_id]_vars

\* after a successful fetch of two components, of which the user chose one,
\* a later fetch has failed: the list, the time and the choice are kept
C35_Witness ==
    /\ ~isConnected
    /\ ~loading
    /\ Len(components) = 2
    /\ lastUpdateTime # NoneInt
    /\ selectedComponent \in {components[i].component_id : i \in DOMAIN components}
    /\ now > BoardStart

\* C36: getOverallHealthClass gives health-good for the ComponentStatus of a
\* component iff its heartbeat is there and classified healthy, its
\* file-monitor record is absent or ok and its level record is absent or
\* compliant (without a heartbeat, or with a warning one, it gives
\* health-bad); and when it gives health-good the overall status the engine
\* computed for the same records is neither critical nor warning.
C36_DashboardVerdict ==
    \A k \in DOMAIN m_out :
        LET c == m_in.comp.component_id
            good == m_out[k] = "health-good"
        IN  /\ m_out[k] \in {"health-good", "health-bad"}
            /\ good <=> /\ c \in DOMAIN heartbeat
                        /\ HeartbeatClass(c) = "healthy"
                        /\ ~FilesFailing(c)
                        /\ ~LevelFailing(c)
            /\ good => m_in.comp.overall_status \notin {"critical", "warning"}

\* a component known by its records alone, both ok, judged: health-bad
C36_Witness ==
    /\ m_out = << "health-bad" >>
    /\ m_in.comp.heartbeat = NoneRec
    /\ m_in.comp.file_status # NoneRec /\ m_in.comp.file_status.overall_file_health
    /\ m_in.comp.level_status # NoneRec /\ m_in.comp.level_status.compliant

\* C37: the dashboard counts every component of its list in exactly one of
\* healthyCount and criticalCount, so the two sum to the length of the list;
\* the components counted in warningCount (heartbeat warning) are all
\* health-bad, hence among those of criticalCount: warningCount <= criticalCount.
C37_CountersPartition ==
    /\ healthyCount + criticalCount = Len(components)
    /\ healthyCount = Cardinality({i \in DOMAIN components : IsGood(components[i])})
    /\ criticalCount = Cardinality({i \in DOMAIN components : ~IsGood(components[i])})
    /\ warningCount <= criticalCount
    /\ warningCount =
          Cardinality({i \in DOMAIN components :
                          /\ components[i].heartbeat.status = "warning"
                          /\ ~IsGood(components[i])})

\* a list of two: one healthy, one with a warning heartbeat
C37_Witness ==
    /\ Len(components) = 2
    /\ healthyCount = 1
    /\ warningCount = 1
    /\ criticalCount = 1

\* the ComponentStatus of id in the list of the dashboard
Shown(id) ==
    CHOOSE comp \in {components[i] : i \in DOMAIN components} : comp.component_id = id

ShownIds == {components[i].component_id : i \in DOMAIN components}

\* the last n elements of a sequence
LastN(seq, n) == IF Len(seq) <= n THEN seq ELSE SubSeq(seq, Len(seq) - n + 1, Len(seq))

\* C38: the labels and the data of every component's history have the same
\* length, at most 20; an updateHistoryData call appends to the history of
\* every listed component the time of the call and the score 40 (heartbeat
\* healthy) + 30 (file health true) + 30 (level compliant true), keeps the
\* last 20 samples in their order, and leaves the other histories alone.
C38_HistoryWindow ==
    /\ [](\A id \in DOMAIN historyData :
            /\ Len(historyData[id].labels) = Len(historyData[id].data)
            /\ Len(historyData[id].labels) <= 20)
    /\ [][(HistoryTick \/ historyData' # historyData) =>
            /\ DOMAIN historyData' = DOMAIN historyData \cup ShownIds
            /\ \A id \in DOMAIN historyData' \ ShownIds :
                  historyData'[id] = historyData[id]
            /\ \A id \in ShownIds :
                  LET old == IF id \in DOMAIN historyData THEN historyData[id]
                             ELSE [labels |-> << >>, data |-> << >>]
                      hb == Shown(id).heartbeat
                      files == Shown(id).file_status
                      level == Shown(id).level_status
                      score == (IF hb # NoneRec /\ hb.status = "healthy" THEN 40 ELSE 0)
                               + (IF files # NoneRec /\ files.overall_file_health
                                  THEN 30 ELSE 0)
                               + (IF level # NoneRec /\ level.compliant THEN 30 ELSE 0)
                  IN  /\ historyData'[id].labels
                            = LastN(Append(old.labels, now % 86400), 20)
                      /\ historyData'[id].data = LastN(Append(old.data, score), 20)]_vars

\* a history of 20 samples whose oldest ones have been dropped: it ends with
\* two samples taken ten seconds apart, of different scores
C38_Witness ==
    \E id \in DOMAIN historyData :
        LET h == historyData[id]
        IN  /\ Len(h.labels) = 20
            /\ h.labels[20] = (BoardStart + 2 * POLL_INTERVAL) % 86400
            /\ h.labels[19] = (BoardStart + POLL_INTERVAL) % 86400
            /\ h.labels[1] > (BoardStart - 20 * POLL_INTERVAL) % 86400
            /\ h.data[20] # h.data[19]

====
